---- MODULE Spec2Model ----
(***************************************************************************)
(* Linear optimal power flow (pypsa/opf.py): the model builder, the solver *)
(* hand-off and the result extraction of network_lopf, as a state machine. *)
(*                                                                         *)
(* Numbers are exact rationals <<numerator, denominator>>; the linear      *)
(* expressions and constraints the declarators build are kept as data, so  *)
(* that their terms, coefficients and constants can be inspected and       *)
(* evaluated on assignments of the model's variables.                      *)
(***************************************************************************)
EXTENDS Integers, Sequences, FiniteSets, TLC

VARIABLES
    network,              \* the Network: element tables and input time-series
    sub_network_PTDF,     \* sub_network.PTDF of every sub-network
    snapshots,            \* the solve window, a sequence of snapshots
    formulation,          \* argument formulation
    ptdf_tolerance,       \* argument ptdf_tolerance
    extra_functionality,  \* TRUE when a callback was given, FALSE for None
    pc,                   \* position in network_lopf
    model,                \* network.model
    p_balance,            \* network._p_balance
    results,              \* network.results of the solver
    solution,             \* primal values returned by the solver
    output,               \* result fields of the network written by extraction
    log                   \* what the call did, in order

vars == <<network, sub_network_PTDF, snapshots, formulation, ptdf_tolerance,
          extra_functionality, pc, model, p_balance, results, solution,
          output, log>>

-----------------------------------------------------------------------------
(* Bounds of the model *)

\* number of snapshots of the network
NSnap == 3

\* primal values of passive branch flows range over -MaxFlow..MaxFlow
MaxFlow == 3

-----------------------------------------------------------------------------
(* Numbers: exact rationals in lowest terms with a positive denominator *)

None == <<>>

Abs(x) == IF x < 0 THEN -x ELSE x

RECURSIVE Gcd(_, _)
Gcd(a, b) == IF b = 0 THEN a ELSE Gcd(b, a % b)

Frac(n, d) ==
    LET s == IF d < 0 THEN -1 ELSE 1
        g == Gcd(Abs(n), Abs(d))
    IN  <<(s * n) \div g, (s * d) \div g>>

Num(n) == <<n, 1>>

Add(a, b) == Frac(a[1] * b[2] + b[1] * a[2], a[2] * b[2])
Neg(a) == <<-a[1], a[2]>>
Sub(a, b) == Add(a, Neg(b))
Mul(a, b) == Frac(a[1] * b[1], a[2] * b[2])
Inv(a) == Frac(a[2], a[1])
Less(a, b) == a[1] * b[2] < b[1] * a[2]
LessEq(a, b) == a[1] * b[2] <= b[1] * a[2]
AbsNum(a) == <<Abs(a[1]), a[2]>>

\* a ** k for a whole number k >= 0
RECURSIVE Pow(_, _)
Pow(a, k) == IF k = 0 THEN Num(1) ELSE Mul(a, Pow(a, k - 1))

-----------------------------------------------------------------------------
(* Sequences *)

RECURSIVE Flatten(_)
Flatten(ss) == IF ss = <<>> THEN <<>> ELSE Head(ss) \o Flatten(Tail(ss))

\* the sequence [f(x) for x in seq]
MapSeq(seq, f(_)) == [i \in 1..Len(seq) |-> f(seq[i])]

\* the concatenation of f(x) for x in seq, f(x) a sequence
ConcatMap(seq, f(_)) == Flatten(MapSeq(seq, f))

Range(seq) == {seq[i] : i \in 1..Len(seq)}

\* seq[k] of Python: zero-based, a negative k counts from the end
PyIndex(seq, k) == IF k < 0 THEN seq[Len(seq) + k + 1] ELSE seq[k + 1]

\* the elements of seq that are in S, in the order of seq
Restrict(seq, S) == SelectSeq(seq, LAMBDA x : x \in S)

-----------------------------------------------------------------------------
(* LP algebra (pypsa/opt.py): linear expressions and constraints *)

\* LExpression(variables, constant)
LExpression(variables, constant) ==
    [variables |-> variables, constant |-> constant]

EmptyExpression == LExpression(<<>>, Num(0))

\* LExpression.__mul__ by a number
ExprMul(c, e) ==
    LExpression([i \in 1..Len(e.variables) |->
                    <<Mul(c, e.variables[i][1]), e.variables[i][2]>>],
                Mul(c, e.constant))

\* LExpression.__add__
ExprAdd(e, f) ==
    LExpression(e.variables \o f.variables, Add(e.constant, f.constant))

\* sum(...) of a sequence of expressions
RECURSIVE ExprSum(_)
ExprSum(es) ==
    IF es = <<>> THEN EmptyExpression ELSE ExprAdd(Head(es), ExprSum(Tail(es)))

\* LConstraint(lhs, sense, rhs)
LConstraint(lhs, sense, rhs) == [lhs |-> lhs, sense |-> sense, rhs |-> rhs]

\* l_constraint on an LConstraint: variables of rhs move to the left,
\* constants to the right
Normal(c) ==
    [variables |-> c.lhs.variables \o
                   [i \in 1..Len(c.rhs.variables) |->
                       <<Neg(c.rhs.variables[i][1]), c.rhs.variables[i][2]>>],
     sense |-> c.sense,
     constant |-> Sub(c.rhs.constant, c.lhs.constant)]

\* l_constraint on a list [variables, sense, constant]
Listed(variables, sense, constant) ==
    [variables |-> variables, sense |-> sense, constant |-> constant]

-----------------------------------------------------------------------------
(* The Network (pypsa/components.py) and the per-sub-network data of the   *)
(* topology collaborator (pypsa/pf.py): the inputs of network_lopf.        *)

AllSnapshots == [i \in 1..NSnap |-> i]

\* hours of a snapshot: snapshots weigh 1 and 2 hours in turn
Weight(t) == IF t % 2 = 0 THEN 2 ELSE 1

Generator(bus, extendable, dispatch, carrier) ==
    [bus |-> bus, p_nom_extendable |-> extendable, dispatch |-> dispatch,
     p_nom |-> Num(4), p_nom_min |-> Num(0), p_nom_max |-> Num(8),
     p_min_pu_fixed |-> Num(0), p_max_pu_fixed |-> Num(1),
     marginal_cost |-> Num(10), capital_cost |-> Num(3),
     efficiency |-> Frac(1, 2), carrier |-> carrier, sign |-> Num(1)]

Load(bus) == [bus |-> bus, sign |-> Num(-1)]

StorageUnit(bus, extendable, cyclic) ==
    [bus |-> bus, p_nom_extendable |-> extendable, p_nom |-> Num(2),
     p_nom_min |-> Num(0), p_nom_max |-> Num(6),
     p_max_pu_fixed |-> Num(1), p_min_pu_fixed |-> Num(-1),
     max_hours |-> Num(4), efficiency_store |-> Frac(1, 2),
     efficiency_dispatch |-> Frac(1, 2), standing_loss |-> Frac(1, 2),
     cyclic_state_of_charge |-> cyclic, state_of_charge_initial |-> Num(3),
     marginal_cost |-> Num(1), capital_cost |-> Num(5), sign |-> Num(1)]

Store(bus, extendable, cyclic) ==
    [bus |-> bus, e_nom_extendable |-> extendable, e_nom |-> Num(6),
     e_nom_min |-> Num(0), e_nom_max |-> Num(9),
     e_min_pu_fixed |-> Num(0), e_max_pu_fixed |-> Num(1),
     standing_loss |-> Frac(1, 2), e_cyclic |-> cyclic, e_initial |-> Num(5),
     marginal_cost |-> Num(2), capital_cost |-> Num(7), sign |-> Num(1)]

Link(bus0, bus1, extendable) ==
    [bus0 |-> bus0, bus1 |-> bus1, p_nom_extendable |-> extendable,
     p_nom |-> Num(2), p_nom_min |-> Num(0), p_nom_max |-> Num(5),
     p_min_pu |-> Num(0), p_max_pu |-> Num(1), efficiency |-> Frac(1, 2),
     marginal_cost |-> Num(1), capital_cost |-> Num(4)]

PassiveBranch(bus0, bus1, extendable, x_pu, r_pu, sub) ==
    [bus0 |-> bus0, bus1 |-> bus1, s_nom_extendable |-> extendable,
     s_nom |-> Num(3), s_nom_min |-> Num(0), s_nom_max |-> Num(6),
     x_pu |-> x_pu, r_pu |-> r_pu, sub_network |-> sub,
     capital_cost |-> Num(2)]

\* A three-bus AC ring: lines L1 (b1-b2), L2 (b2-b3), transformer T1 (b1-b3)
\* with reactances 1, 1, 2; slack bus b1. The cycle b1-b2-b3-b1 runs along
\* L1 and L2 and against T1; the spanning tree is L1, L2 with root b2.
RingSubNetwork ==
    [carrier |-> "AC", slack_bus |-> "b1",
     buses_i |-> <<"b1", "b2", "b3">>,
     buses_o |-> <<"b1", "b2", "b3">>,
     pvpqs |-> <<"b2", "b3">>,
     branches_i |-> << <<"Line", "L1">>, <<"Line", "L2">>,
                       <<"Transformer", "T1">> >>,
     C |-> << <<1>>, <<1>>, <<-1>> >>,
     T |-> << <<1, 0, 0>>, <<0, 0, -1>>, <<0, 0, 0>> >>,
     PTDF |-> << <<Num(0), Frac(-3, 4), Frac(-1, 2)>>,
                 <<Num(0), Frac(1, 4), Frac(-1, 2)>>,
                 <<Num(0), Frac(-1, 4), Frac(-1, 2)>> >>,
     B_inverse |-> << <<Frac(3, 4), Frac(1, 2)>>,
                      <<Frac(1, 2), Num(1)>> >>]

\* A two-bus DC sub-network: line L4 (d1-d2), slack bus d1, no cycle
PairSubNetwork ==
    [carrier |-> "DC", slack_bus |-> "d1",
     buses_i |-> <<"d1", "d2">>,
     buses_o |-> <<"d1", "d2">>,
     pvpqs |-> <<"d2">>,
     branches_i |-> << <<"Line", "L4">> >>,
     C |-> << <<>> >>,
     T |-> << <<0, -1>> >>,
     PTDF |-> << <<Num(0), Num(-1)>> >>,
     B_inverse |-> << <<Num(2)>> >>]

\* A bus without passive branches is a sub-network of its own
SingleSubNetwork(bus, carrier) ==
    [carrier |-> carrier, slack_bus |-> bus,
     buses_i |-> <<bus>>, buses_o |-> <<bus>>, pvpqs |-> <<>>,
     branches_i |-> <<>>, C |-> <<>>, T |-> <<>>, PTDF |-> <<>>,
     B_inverse |-> <<>>]

Carriers ==
    [AC |-> [co2_emissions |-> Num(0)],
     DC |-> [co2_emissions |-> Num(1)],
     gas |-> [co2_emissions |-> Num(2)],
     wind |-> [co2_emissions |-> Num(0)]]

RingBranches ==
    (<<"Line", "L1">> :> PassiveBranch("b1", "b2", FALSE, Num(1), Num(3), "0")) @@
    (<<"Line", "L2">> :> PassiveBranch("b2", "b3", TRUE, Num(1), Num(3), "0")) @@
    (<<"Transformer", "T1">> :>
        PassiveBranch("b1", "b3", FALSE, Num(2), Num(3), "0"))

\* The full network: the AC ring and the DC pair joined by two links, with
\* generators of the four categories, a non-cyclic and a cyclic storage unit
\* and store, and heterogeneous snapshot weights.
FullNetwork(co2_limit) ==
    [name |-> "full",
     snapshots |-> AllSnapshots,
     snapshot_weightings |-> [t \in 1..NSnap |-> Weight(t)],
     now |-> 1,
     co2_limit |-> co2_limit,
     carriers |-> Carriers,
     buses_i |-> <<"b1", "b2", "b3", "d1", "d2">>,
     buses |-> [b1 |-> [carrier |-> "AC"], b2 |-> [carrier |-> "AC"],
                b3 |-> [carrier |-> "AC"], d1 |-> [carrier |-> "DC"],
                d2 |-> [carrier |-> "DC"]],
     generators_i |-> <<"G1", "G2", "G3", "G4">>,
     generators |-> [G1 |-> Generator("b1", FALSE, "flexible", "gas"),
                     G2 |-> Generator("b2", TRUE, "variable", "wind"),
                     G3 |-> Generator("d2", FALSE, "variable", "wind"),
                     G4 |-> Generator("d1", TRUE, "flexible", "gas")],
     generators_t |->
        [p_min_pu |-> [t \in 1..NSnap |->
                          [g \in {"G1", "G2", "G3", "G4"} |-> Frac(1, 4)]],
         p_max_pu |-> [t \in 1..NSnap |->
                          [g \in {"G1", "G2", "G3", "G4"} |-> Frac(t, t + 1)]]],
     loads_i |-> <<"D1", "D2">>,
     loads |-> [D1 |-> Load("b3"), D2 |-> Load("d2")],
     loads_t |-> [p_set |-> [t \in 1..NSnap |->
                                [l \in {"D1", "D2"} |-> Num(t)]]],
     storage_units_i |-> <<"S1", "S2">>,
     storage_units |-> [S1 |-> StorageUnit("b2", FALSE, FALSE),
                        S2 |-> StorageUnit("d1", TRUE, TRUE)],
     storage_units_t |->
        [inflow |-> [t \in 1..NSnap |->
                        [S1 |-> IF t % 2 = 1 THEN Num(t) ELSE Num(0),
                         S2 |-> Num(0)]],
         state_of_charge_set |-> [t \in 1..NSnap |->
                        [S1 |-> IF t = 2 THEN Num(1) ELSE None,
                         S2 |-> IF t = 1 THEN Num(2) ELSE None]]],
     stores_i |-> <<"E1", "E2">>,
     stores |-> [E1 |-> Store("b1", FALSE, FALSE),
                 E2 |-> Store("d2", TRUE, TRUE)],
     links_i |-> <<"K1", "K2">>,
     links |-> [K1 |-> Link("b3", "d1", FALSE),
                K2 |-> Link("d2", "b1", TRUE)],
     passive_branches_i |-> << <<"Line", "L1">>, <<"Line", "L2">>,
                               <<"Line", "L4">>, <<"Transformer", "T1">> >>,
     passive_branches |-> RingBranches @@
        (<<"Line", "L4">> :>
            PassiveBranch("d1", "d2", TRUE, Num(1), Num(2), "1")),
     sub_networks_i |-> <<"0", "1">>,
     sub_networks |-> ("0" :> RingSubNetwork) @@ ("1" :> PairSubNetwork)]

\* Two buses without passive branches, each a sub-network of its own,
\* joined by a link
IsolatedNetwork(co2_limit) ==
    [name |-> "isolated",
     snapshots |-> AllSnapshots,
     snapshot_weightings |-> [t \in 1..NSnap |-> Weight(t)],
     now |-> 1,
     co2_limit |-> co2_limit,
     carriers |-> Carriers,
     buses_i |-> <<"b1", "d1">>,
     buses |-> [b1 |-> [carrier |-> "AC"], d1 |-> [carrier |-> "DC"]],
     generators_i |-> <<"G1">>,
     generators |-> [G1 |-> Generator("b1", FALSE, "flexible", "gas")],
     generators_t |->
        [p_min_pu |-> [t \in 1..NSnap |-> [g \in {"G1"} |-> Num(0)]],
         p_max_pu |-> [t \in 1..NSnap |-> [g \in {"G1"} |-> Num(1)]]],
     loads_i |-> <<"D1">>,
     loads |-> [D1 |-> Load("d1")],
     loads_t |-> [p_set |-> [t \in 1..NSnap |-> [l \in {"D1"} |-> Num(1)]]],
     storage_units_i |-> <<>>,
     storage_units |-> <<>>,
     storage_units_t |->
        [inflow |-> [t \in 1..NSnap |-> <<>>],
         state_of_charge_set |-> [t \in 1..NSnap |-> <<>>]],
     stores_i |-> <<>>,
     stores |-> <<>>,
     links_i |-> <<"K1">>,
     links |-> [K1 |-> Link("b1", "d1", FALSE)],
     passive_branches_i |-> <<>>,
     passive_branches |-> <<>>,
     sub_networks_i |-> <<"0", "1">>,
     sub_networks |-> ("0" :> SingleSubNetwork("b1", "AC")) @@
                      ("1" :> SingleSubNetwork("d1", "DC"))]

\* The AC ring with fixed branches, two generators, a load, and a link to a
\* DC bus with a load: the network on which primal values are enumerated
RingNetwork ==
    [name |-> "ring",
     snapshots |-> AllSnapshots,
     snapshot_weightings |-> [t \in 1..NSnap |-> Weight(t)],
     now |-> 1,
     co2_limit |-> None,
     carriers |-> Carriers,
     buses_i |-> <<"b1", "b2", "b3", "d1">>,
     buses |-> [b1 |-> [carrier |-> "AC"], b2 |-> [carrier |-> "AC"],
                b3 |-> [carrier |-> "AC"], d1 |-> [carrier |-> "DC"]],
     generators_i |-> <<"G1", "G2">>,
     generators |-> [G1 |-> Generator("b1", FALSE, "flexible", "gas"),
                     G2 |-> Generator("b2", FALSE, "flexible", "wind")],
     generators_t |->
        [p_min_pu |-> [t \in 1..NSnap |-> [g \in {"G1", "G2"} |-> Num(0)]],
         p_max_pu |-> [t \in 1..NSnap |-> [g \in {"G1", "G2"} |-> Num(1)]]],
     loads_i |-> <<"D1", "D2">>,
     loads |-> [D1 |-> Load("b3"), D2 |-> Load("d1")],
     loads_t |-> [p_set |-> [t \in 1..NSnap |->
                                [D1 |-> Num(2), D2 |-> Num(1)]]],
     storage_units_i |-> <<>>,
     storage_units |-> <<>>,
     storage_units_t |->
        [inflow |-> [t \in 1..NSnap |-> <<>>],
         state_of_charge_set |-> [t \in 1..NSnap |-> <<>>]],
     stores_i |-> <<>>,
     stores |-> <<>>,
     links_i |-> <<"K1">>,
     links |-> [K1 |-> Link("b3", "d1", FALSE)],
     passive_branches_i |-> << <<"Line", "L1">>, <<"Line", "L2">>,
                               <<"Transformer", "T1">> >>,
     passive_branches |->
        [b \in DOMAIN RingBranches |->
            [RingBranches[b] EXCEPT !.s_nom_extendable = FALSE]],
     sub_networks_i |-> <<"0", "1">>,
     sub_networks |-> ("0" :> RingSubNetwork) @@
                      ("1" :> SingleSubNetwork("d1", "DC"))]

\* Scenario S1: two AC buses A (slack) and B joined by line L (x_pu 0.1,
\* s_nom 150), a fixed generator G of capacity 200 and marginal cost 10 at
\* A, a load D of 100 at B
TwoBusSubNetwork ==
    [carrier |-> "AC", slack_bus |-> "A",
     buses_i |-> <<"A", "B">>,
     buses_o |-> <<"A", "B">>,
     pvpqs |-> <<"B">>,
     branches_i |-> << <<"Line", "L">> >>,
     C |-> << <<>> >>,
     T |-> << <<0, -1>> >>,
     PTDF |-> << <<Num(0), Num(-1)>> >>,
     B_inverse |-> << <<Frac(1, 10)>> >>]

TwoBusNetwork ==
    [name |-> "S1",
     snapshots |-> AllSnapshots,
     snapshot_weightings |-> [t \in 1..NSnap |-> Weight(t)],
     now |-> 1,
     co2_limit |-> None,
     carriers |-> Carriers,
     buses_i |-> <<"A", "B">>,
     buses |-> [A |-> [carrier |-> "AC"], B |-> [carrier |-> "AC"]],
     generators_i |-> <<"G">>,
     generators |->
        [G |-> [Generator("A", FALSE, "flexible", "gas")
                  EXCEPT !.p_nom = Num(200)]],
     generators_t |->
        [p_min_pu |-> [t \in 1..NSnap |-> [g \in {"G"} |-> Num(0)]],
         p_max_pu |-> [t \in 1..NSnap |-> [g \in {"G"} |-> Num(1)]]],
     loads_i |-> <<"D">>,
     loads |-> [D |-> Load("B")],
     loads_t |-> [p_set |-> [t \in 1..NSnap |-> [D |-> Num(100)]]],
     storage_units_i |-> <<>>,
     storage_units |-> <<>>,
     storage_units_t |->
        [inflow |-> [t \in 1..NSnap |-> <<>>],
         state_of_charge_set |-> [t \in 1..NSnap |-> <<>>]],
     stores_i |-> <<>>,
     stores |-> <<>>,
     links_i |-> <<>>,
     links |-> <<>>,
     passive_branches_i |-> << <<"Line", "L">> >>,
     passive_branches |->
        (<<"Line", "L">> :>
            [PassiveBranch("A", "B", FALSE, Frac(1, 10), Num(0), "0")
               EXCEPT !.s_nom = Num(150)]),
     sub_networks_i |-> <<"0">>,
     sub_networks |-> ("0" :> TwoBusSubNetwork)]

-----------------------------------------------------------------------------
(* The pyomo model: declarations of indexed variables and constraints.     *)
(* A variable is named by the key <<component, index...>>.                 *)

\* Var(index, domain=..., bounds=...): members maps each key to its bounds
Var(name, members) == [kind |-> "Var", name |-> name, members |-> members]

\* l_constraint(model, name, constraints, index) and Constraint(index, rule)
Constraint(name, members) ==
    [kind |-> "Constraint", name |-> name, members |-> members]

Bounds(domain, lb, ub) == [domain |-> domain, lb |-> lb, ub |-> ub]

\* the term (coefficient, variable) of an expression
Term(c, v) == <<c, v>>

-----------------------------------------------------------------------------
(* define_generator_variables_constraints *)

\* a variant that bounds every fixed generator by its static per-unit limits
define_generator_variables_constraints_static(n, sns) ==
    LET gens == n.generators
        S == Range(sns)
        extendable_gens ==
            {g \in Range(n.generators_i) : gens[g].p_nom_extendable}
        fixed_gens ==
            {g \in Range(n.generators_i) : ~gens[g].p_nom_extendable}
        fixed_var_gens == {g \in fixed_gens : gens[g].dispatch = "variable"}
        fixed_flex_gens == {g \in fixed_gens : gens[g].dispatch = "flexible"}
        extendable_var_gens ==
            {g \in extendable_gens : gens[g].dispatch = "variable"}
        extendable_flex_gens ==
            {g \in extendable_gens : gens[g].dispatch = "flexible"}
        gen_p_bounds(g, t) ==
            CASE g \in fixed_flex_gens ->
                    Bounds("Reals",
                           Mul(gens[g].p_nom, gens[g].p_min_pu_fixed),
                           Mul(gens[g].p_nom, gens[g].p_max_pu_fixed))
              [] g \in fixed_var_gens ->
                    Bounds("Reals",
                           Mul(gens[g].p_nom, gens[g].p_min_pu_fixed),
                           Mul(gens[g].p_nom, gens[g].p_max_pu_fixed))
              [] g \in extendable_gens -> Bounds("Reals", None, None)
        p_min_pu(g, t) ==
            CASE g \in extendable_flex_gens -> gens[g].p_min_pu_fixed
              [] g \in extendable_var_gens -> n.generators_t.p_min_pu[t][g]
        p_max_pu(g, t) ==
            CASE g \in extendable_flex_gens -> gens[g].p_max_pu_fixed
              [] g \in extendable_var_gens -> n.generators_t.p_max_pu[t][g]
    IN  << Var("generator_p",
               [k \in {<<"generator_p", g, t>> :
                          g \in Range(n.generators_i), t \in S} |->
                   gen_p_bounds(k[2], k[3])]),
           Var("generator_p_nom",
               [k \in {<<"generator_p_nom", g>> : g \in extendable_gens} |->
                   Bounds("NonNegativeReals", gens[k[2]].p_nom_min,
                          gens[k[2]].p_nom_max)]),
           Constraint("generator_p_lower",
               [k \in {<<"generator_p_lower", g, t>> :
                          g \in extendable_gens, t \in S} |->
                   Listed(<<Term(Num(1), <<"generator_p", k[2], k[3]>>),
                            Term(Neg(p_min_pu(k[2], k[3])),
                                 <<"generator_p_nom", k[2]>>)>>,
                          ">=", Num(0))]),
           Constraint("generator_p_upper",
               [k \in {<<"generator_p_upper", g, t>> :
                          g \in extendable_gens, t \in S} |->
                   Listed(<<Term(Num(1), <<"generator_p", k[2], k[3]>>),
                            Term(Neg(p_max_pu(k[2], k[3])),
                                 <<"generator_p_nom", k[2]>>)>>,
                          "<=", Num(0))]) >>

define_generator_variables_constraints(n, sns) ==
    LET gens == n.generators
        S == Range(sns)
        extendable_gens ==
            {g \in Range(n.generators_i) : gens[g].p_nom_extendable}
        fixed_gens ==
            {g \in Range(n.generators_i) : ~gens[g].p_nom_extendable}
        fixed_var_gens == {g \in fixed_gens : gens[g].dispatch = "variable"}
        fixed_flex_gens == {g \in fixed_gens : gens[g].dispatch = "flexible"}
        extendable_var_gens ==
            {g \in extendable_gens : gens[g].dispatch = "variable"}
        extendable_flex_gens ==
            {g \in extendable_gens : gens[g].dispatch = "flexible"}
        gen_p_bounds(g, t) ==
            CASE g \in fixed_flex_gens ->
                    Bounds("Reals",
                           Mul(gens[g].p_nom, gens[g].p_min_pu_fixed),
                           Mul(gens[g].p_nom, gens[g].p_max_pu_fixed))
              [] g \in fixed_var_gens ->
                    Bounds("Reals",
                           Mul(n.generators_t.p_min_pu[t][g], gens[g].p_nom),
                           Mul(n.generators_t.p_max_pu[t][g], gens[g].p_nom))
              [] g \in extendable_gens -> Bounds("Reals", None, None)
        p_min_pu(g, t) ==
            CASE g \in extendable_flex_gens -> gens[g].p_min_pu_fixed
              [] g \in extendable_var_gens -> n.generators_t.p_min_pu[t][g]
        p_max_pu(g, t) ==
            CASE g \in extendable_flex_gens -> gens[g].p_max_pu_fixed
              [] g \in extendable_var_gens -> n.generators_t.p_max_pu[t][g]
    IN  << Var("generator_p",
               [k \in {<<"generator_p", g, t>> :
                          g \in Range(n.generators_i), t \in S} |->
                   gen_p_bounds(k[2], k[3])]),
           Var("generator_p_nom",
               [k \in {<<"generator_p_nom", g>> : g \in extendable_gens} |->
                   Bounds("NonNegativeReals", gens[k[2]].p_nom_min,
                          gens[k[2]].p_nom_max)]),
           Constraint("generator_p_lower",
               [k \in {<<"generator_p_lower", g, t>> :
                          g \in extendable_gens, t \in S} |->
                   Listed(<<Term(Num(1), <<"generator_p", k[2], k[3]>>),
                            Term(Neg(p_min_pu(k[2], k[3])),
                                 <<"generator_p_nom", k[2]>>)>>,
                          ">=", Num(0))]),
           Constraint("generator_p_upper",
               [k \in {<<"generator_p_upper", g, t>> :
                          g \in extendable_gens, t \in S} |->
                   Listed(<<Term(Num(1), <<"generator_p", k[2], k[3]>>),
                            Term(Neg(p_max_pu(k[2], k[3])),
                                 <<"generator_p_nom", k[2]>>)>>,
                          "<=", Num(0))]) >>

-----------------------------------------------------------------------------
(* define_storage_variables_constraints *)

\* snapshots[i-1], the snapshot whose state precedes that of snapshots[i]
\* a variant that stays on the first snapshot instead of wrapping around
previous_snapshot_no_wrap(sns, i) == PyIndex(sns, IF i = 0 THEN 0 ELSE i - 1)

previous_snapshot(sns, i) == PyIndex(sns, i - 1)

\* a variant that starts every unit, cyclic or not, from its initial value
previous_is_initial_always(i, cyclic) == i = 0

\* i == 0 and not cyclic: the previous state is the initial constant
previous_is_initial(i, cyclic) == i = 0 /\ ~cyclic

\* (1 - standing_loss) ** elapsed_hours
decay(standing_loss, elapsed_hours) ==
    Pow(Sub(Num(1), standing_loss), elapsed_hours)

\* a variant that takes every state_of_charge_set for missing
isnull_always(x) == TRUE

\* pd.isnull
isnull(x) == x = None

\* the entry soc[su, snapshots[i]] built by the loop over (su, i)
soc_entry(n, sns, su, i) ==
    LET sus == n.storage_units
        sn == PyIndex(sns, i)
        elapsed_hours == n.snapshot_weightings[sn]
        d == decay(sus[su].standing_loss, elapsed_hours)
        initial == previous_is_initial(i, sus[su].cyclic_state_of_charge)
        state_of_charge == n.storage_units_t.state_of_charge_set[sn][su]
        previous ==
            IF initial THEN <<>>
            ELSE <<Term(d, <<"state_of_charge", su,
                             previous_snapshot(sns, i)>>)>>
        current ==
            IF isnull(state_of_charge)
            THEN <<Term(Num(-1), <<"state_of_charge", su, sn>>)>>
            ELSE <<>>
        power ==
            <<Term(Mul(sus[su].efficiency_store, Num(elapsed_hours)),
                   <<"storage_p_store", su, sn>>),
              Term(Mul(Neg(Inv(sus[su].efficiency_dispatch)),
                       Num(elapsed_hours)),
                   <<"storage_p_dispatch", su, sn>>)>>
        c0 == IF initial
              THEN Neg(Mul(d, sus[su].state_of_charge_initial))
              ELSE Num(0)
        c1 == IF isnull(state_of_charge) THEN c0
              ELSE Add(c0, state_of_charge)
        c2 == Sub(c1, Mul(n.storage_units_t.inflow[sn][su],
                          Num(elapsed_hours)))
    IN  Listed(previous \o current \o power, "==", c2)

\* elapsed_hours as the loop over (su, i) leaves it: the hours of the last
\* snapshot of the window
spill_elapsed_hours(n, sns, su, sn) ==
    n.snapshot_weightings[PyIndex(sns, -1)]

\* the keys without the test of the inflow of the snapshot
spill_index_any_inflow(n, sns) ==
    LET inflow == n.storage_units_t.inflow
        spill_sus == {su \in Range(n.storage_units_i) :
                         \E t \in Range(n.snapshots) :
                             Less(Num(0), inflow[t][su])}
    IN  spill_sus \X Range(sns)

\* the keys of spill_bounds: units with some inflow, snapshots of the window
\* with inflow > 0
spill_index(n, sns) ==
    LET inflow == n.storage_units_t.inflow
        spill_sus == {su \in Range(n.storage_units_i) :
                         \E t \in Range(n.snapshots) :
                             Less(Num(0), inflow[t][su])}
    IN  {<<su, sn>> \in spill_sus \X Range(sns) :
            Less(Num(0), inflow[sn][su])}

define_storage_variables_constraints(n, sns) ==
    LET sus == n.storage_units
        S == Range(sns)
        all == Range(n.storage_units_i)
        ext_sus == {su \in all : sus[su].p_nom_extendable}
        fix_sus == {su \in all : ~sus[su].p_nom_extendable}
        inflow == n.storage_units_t.inflow
        spill == spill_index(n, sns)
        position(sn) == CHOOSE i \in 0..(Len(sns) - 1) : PyIndex(sns, i) = sn
        soc(su, sn) ==
            LET e == soc_entry(n, sns, su, position(sn))
            IN  IF <<su, sn>> \in spill
                THEN [e EXCEPT !.variables = Append(@,
                        Term(Mul(Num(-1),
                                 Num(spill_elapsed_hours(n, sns, su, sn))),
                             <<"storage_p_spill", su, sn>>))]
                ELSE e
        fixed_soc ==
            {<<su, sn>> \in all \X S :
                ~isnull(n.storage_units_t.state_of_charge_set[sn][su])}
    IN  << Var("storage_p_dispatch",
               [k \in {<<"storage_p_dispatch", su, t>> : su \in all, t \in S}
                |-> IF k[2] \in ext_sus
                    THEN Bounds("NonNegativeReals", Num(0), None)
                    ELSE Bounds("NonNegativeReals", Num(0),
                                Mul(sus[k[2]].p_nom,
                                    sus[k[2]].p_max_pu_fixed))]),
           Var("storage_p_store",
               [k \in {<<"storage_p_store", su, t>> : su \in all, t \in S}
                |-> IF k[2] \in ext_sus
                    THEN Bounds("NonNegativeReals", Num(0), None)
                    ELSE Bounds("NonNegativeReals", Num(0),
                                Mul(Neg(sus[k[2]].p_nom),
                                    sus[k[2]].p_min_pu_fixed))]),
           Var("storage_p_spill",
               [k \in {<<"storage_p_spill", x[1], x[2]>> : x \in spill}
                |-> Bounds("NonNegativeReals", Num(0), inflow[k[3]][k[2]])]),
           Var("storage_p_nom",
               [k \in {<<"storage_p_nom", su>> : su \in ext_sus}
                |-> Bounds("NonNegativeReals", sus[k[2]].p_nom_min,
                           sus[k[2]].p_nom_max)]),
           Constraint("storage_p_upper",
               [k \in {<<"storage_p_upper", su, t>> : su \in ext_sus, t \in S}
                |-> Listed(<<Term(Num(1), <<"storage_p_dispatch", k[2], k[3]>>),
                             Term(Neg(sus[k[2]].p_max_pu_fixed),
                                  <<"storage_p_nom", k[2]>>)>>,
                           "<=", Num(0))]),
           Constraint("storage_p_lower",
               [k \in {<<"storage_p_lower", su, t>> : su \in ext_sus, t \in S}
                |-> Listed(<<Term(Num(1), <<"storage_p_store", k[2], k[3]>>),
                             Term(sus[k[2]].p_min_pu_fixed,
                                  <<"storage_p_nom", k[2]>>)>>,
                           "<=", Num(0))]),
           Var("state_of_charge",
               [k \in {<<"state_of_charge", su, t>> : su \in all, t \in S}
                |-> Bounds("NonNegativeReals", Num(0), None)]),
           Constraint("state_of_charge_upper",
               [k \in {<<"state_of_charge_upper", su, t>> :
                          su \in all, t \in S}
                |-> IF k[2] \in ext_sus
                    THEN Listed(<<Term(Num(1),
                                       <<"state_of_charge", k[2], k[3]>>),
                                  Term(Neg(sus[k[2]].max_hours),
                                       <<"storage_p_nom", k[2]>>)>>,
                                "<=", Num(0))
                    ELSE Listed(<<Term(Num(1),
                                       <<"state_of_charge", k[2], k[3]>>)>>,
                                "<=",
                                Mul(sus[k[2]].max_hours, sus[k[2]].p_nom))]),
           Constraint("state_of_charge_constraint",
               [k \in {<<"state_of_charge_constraint", su, t>> :
                          su \in all, t \in S}
                |-> soc(k[2], k[3])]),
           Constraint("state_of_charge_constraint_fixed",
               [k \in {<<"state_of_charge_constraint_fixed", x[1], x[2]>> :
                          x \in fixed_soc}
                |-> Listed(<<Term(Num(1), <<"state_of_charge", k[2], k[3]>>)>>,
                           "==",
                           n.storage_units_t.state_of_charge_set[k[3]][k[2]])])
        >>

-----------------------------------------------------------------------------
(* define_store_variables_constraints *)

\* the entry e[store, snapshots[i]] built by the loop over (store, i)
store_entry(n, sns, store, i) ==
    LET stores == n.stores
        sn == PyIndex(sns, i)
        elapsed_hours == n.snapshot_weightings[sn]
        d == decay(stores[store].standing_loss, elapsed_hours)
        initial == previous_is_initial(i, stores[store].e_cyclic)
        lhs == LExpression(
                 <<Term(Num(-1), <<"store_e", store, sn>>)>> \o
                 (IF initial THEN <<>>
                  ELSE <<Term(d, <<"store_e", store,
                                   previous_snapshot(sns, i)>>)>>) \o
                 <<Term(Neg(Num(elapsed_hours)), <<"store_p", store, sn>>)>>,
                 IF initial THEN Mul(d, stores[store].e_initial) ELSE Num(0))
    IN  Normal(LConstraint(lhs, "==", EmptyExpression))

define_store_variables_constraints(n, sns) ==
    LET stores == n.stores
        S == Range(sns)
        all == Range(n.stores_i)
        ext_stores == {x \in all : stores[x].e_nom_extendable}
        fix_stores == {x \in all : ~stores[x].e_nom_extendable}
        position(sn) == CHOOSE i \in 0..(Len(sns) - 1) : PyIndex(sns, i) = sn
    IN  << Var("store_p",
               [k \in {<<"store_p", x, t>> : x \in all, t \in S}
                |-> Bounds("Reals", None, None)]),
           Var("store_e",
               [k \in {<<"store_e", x, t>> : x \in all, t \in S}
                |-> IF k[2] \in ext_stores
                    THEN Bounds("Reals", None, None)
                    ELSE Bounds("Reals",
                                Mul(stores[k[2]].e_nom,
                                    stores[k[2]].e_min_pu_fixed),
                                Mul(stores[k[2]].e_nom,
                                    stores[k[2]].e_max_pu_fixed))]),
           Var("store_e_nom",
               [k \in {<<"store_e_nom", x>> : x \in ext_stores}
                |-> Bounds("Reals", stores[k[2]].e_nom_min,
                           stores[k[2]].e_nom_max)]),
           Constraint("store_e_upper",
               [k \in {<<"store_e_upper", x, t>> : x \in ext_stores, t \in S}
                |-> Listed(<<Term(Num(1), <<"store_e", k[2], k[3]>>),
                             Term(Neg(stores[k[2]].e_max_pu_fixed),
                                  <<"store_e_nom", k[2]>>)>>,
                           "<=", Num(0))]),
           Constraint("store_e_lower",
               [k \in {<<"store_e_lower", x, t>> : x \in ext_stores, t \in S}
                |-> Listed(<<Term(Num(1), <<"store_e", k[2], k[3]>>),
                             Term(Neg(stores[k[2]].e_min_pu_fixed),
                                  <<"store_e_nom", k[2]>>)>>,
                           ">=", Num(0))]),
           Constraint("store_constraint",
               [k \in {<<"store_constraint", x, t>> : x \in all, t \in S}
                |-> store_entry(n, sns, k[2], position(k[3]))]) >>

-----------------------------------------------------------------------------
(* define_branch_extension_variables, define_link_flows *)

define_branch_extension_variables(n, sns) ==
    LET extendable_passive_branches ==
            {b \in Range(n.passive_branches_i) :
                n.passive_branches[b].s_nom_extendable}
        extendable_links ==
            {l \in Range(n.links_i) : n.links[l].p_nom_extendable}
    IN  << Var("passive_branch_s_nom",
               [k \in {<<"passive_branch_s_nom", b[1], b[2]>> :
                          b \in extendable_passive_branches}
                |-> Bounds("NonNegativeReals",
                           n.passive_branches[<<k[2], k[3]>>].s_nom_min,
                           n.passive_branches[<<k[2], k[3]>>].s_nom_max)]),
           Var("link_p_nom",
               [k \in {<<"link_p_nom", l>> : l \in extendable_links}
                |-> Bounds("NonNegativeReals", n.links[k[2]].p_nom_min,
                           n.links[k[2]].p_nom_max)]) >>

define_link_flows(n, sns) ==
    LET links == n.links
        S == Range(sns)
        all == Range(n.links_i)
        extendable_links == {l \in all : links[l].p_nom_extendable}
    IN  << Var("link_p",
               [k \in {<<"link_p", l, t>> : l \in all, t \in S}
                |-> IF k[2] \in extendable_links
                    THEN Bounds("Reals", None, None)
                    ELSE Bounds("Reals",
                                Mul(links[k[2]].p_min_pu, links[k[2]].p_nom),
                                Mul(links[k[2]].p_max_pu, links[k[2]].p_nom))]),
           Constraint("link_p_upper",
               [k \in {<<"link_p_upper", l, t>> :
                          l \in extendable_links, t \in S}
                |-> Listed(<<Term(Num(1), <<"link_p", k[2], k[3]>>),
                             Term(Neg(links[k[2]].p_max_pu),
                                  <<"link_p_nom", k[2]>>)>>,
                           "<=", Num(0))]),
           Constraint("link_p_lower",
               [k \in {<<"link_p_lower", l, t>> :
                          l \in extendable_links, t \in S}
                |-> Listed(<<Term(Num(1), <<"link_p", k[2], k[3]>>),
                             Term(Neg(links[k[2]].p_min_pu),
                                  <<"link_p_nom", k[2]>>)>>,
                           ">=", Num(0))]) >>

-----------------------------------------------------------------------------
(* define_nodal_balances: network._p_balance, the balance of every bus and *)
(* snapshot without the passive branches                                   *)

\* a variant that delivers the whole flow of a link at bus1
link_balance_terms_lossless(n, cb, bus, sn) ==
    (IF n.links[cb].bus0 = bus
     THEN <<Term(Num(-1), <<"link_p", cb, sn>>)>> ELSE <<>>) \o
    (IF n.links[cb].bus1 = bus
     THEN <<Term(Num(1), <<"link_p", cb, sn>>)>> ELSE <<>>)

\* the terms link cb appends to the balance of bus at snapshot sn
link_balance_terms(n, cb, bus, sn) ==
    (IF n.links[cb].bus0 = bus
     THEN <<Term(Num(-1), <<"link_p", cb, sn>>)>> ELSE <<>>) \o
    (IF n.links[cb].bus1 = bus
     THEN <<Term(n.links[cb].efficiency, <<"link_p", cb, sn>>)>> ELSE <<>>)

\* the constant the loads add to the balance of bus at snapshot sn
RECURSIVE load_balance_constant(_, _, _, _)
load_balance_constant(n, loads_i, bus, sn) ==
    IF loads_i = <<>> THEN Num(0)
    ELSE LET load == Head(loads_i)
             rest == load_balance_constant(n, Tail(loads_i), bus, sn)
         IN  IF n.loads[load].bus = bus
             THEN Add(Mul(n.loads[load].sign, n.loads_t.p_set[sn][load]), rest)
             ELSE rest

define_nodal_balances(n, sns) ==
    [k \in Range(n.buses_i) \X Range(sns) |->
        LET bus == k[1]
            sn == k[2]
        IN  LExpression(
              ConcatMap(n.links_i,
                        LAMBDA cb : link_balance_terms(n, cb, bus, sn)) \o
              ConcatMap(n.generators_i,
                        LAMBDA gen :
                          IF n.generators[gen].bus = bus
                          THEN <<Term(n.generators[gen].sign,
                                      <<"generator_p", gen, sn>>)>>
                          ELSE <<>>) \o
              ConcatMap(n.storage_units_i,
                        LAMBDA su :
                          IF n.storage_units[su].bus = bus
                          THEN <<Term(n.storage_units[su].sign,
                                      <<"storage_p_dispatch", su, sn>>),
                                 Term(Neg(n.storage_units[su].sign),
                                      <<"storage_p_store", su, sn>>)>>
                          ELSE <<>>) \o
              ConcatMap(n.stores_i,
                        LAMBDA store :
                          IF n.stores[store].bus = bus
                          THEN <<Term(n.stores[store].sign,
                                      <<"store_p", store, sn>>)>>
                          ELSE <<>>),
              load_balance_constant(n, n.loads_i, bus, sn))]

-----------------------------------------------------------------------------
(* define_passive_branch_flows: the four formulations *)

NCols(M) == IF M = <<>> THEN 0 ELSE Len(M[1])

\* "r_pu" if the sub-network is DC else "x_pu", read from the branch
impedance(n, sub, b) ==
    IF n.sub_networks[sub].carrier = "DC"
    THEN n.passive_branches[b].r_pu
    ELSE n.passive_branches[b].x_pu

\* the sub-network's row of a branch, zero-based
branch_row(n, sub, b) ==
    CHOOSE i \in 0..(Len(n.sub_networks[sub].branches_i) - 1) :
        PyIndex(n.sub_networks[sub].branches_i, i) = b

passive_branch_p(n, sns) ==
    Var("passive_branch_p",
        [k \in {<<"passive_branch_p", b[1], b[2], t>> :
                   b \in Range(n.passive_branches_i), t \in Range(sns)}
         |-> Bounds("Reals", None, None)])

\* the flow equation with the reactance in place of the susceptance
angles_flow_with_impedance(n, b, sn) ==
    LET bus0 == n.passive_branches[b].bus0
        bus1 == n.passive_branches[b].bus1
        sub == n.passive_branches[b].sub_network
        y == impedance(n, sub, b)
        lhs == LExpression(
                 <<Term(y, <<"voltage_angles", bus0, sn>>),
                   Term(Neg(y), <<"voltage_angles", bus1, sn>>),
                   Term(Num(-1), <<"passive_branch_p", b[1], b[2], sn>>)>>,
                 Num(0))
    IN  Normal(LConstraint(lhs, "==", EmptyExpression))

\* the constraint of branch b at snapshot sn under "angles"
angles_flow(n, b, sn) ==
    LET bus0 == n.passive_branches[b].bus0
        bus1 == n.passive_branches[b].bus1
        sub == n.passive_branches[b].sub_network
        y == Inv(impedance(n, sub, b))
        lhs == LExpression(
                 <<Term(y, <<"voltage_angles", bus0, sn>>),
                   Term(Neg(y), <<"voltage_angles", bus1, sn>>),
                   Term(Num(-1), <<"passive_branch_p", b[1], b[2], sn>>)>>,
                 Num(0))
    IN  Normal(LConstraint(lhs, "==", EmptyExpression))

define_passive_branch_flows_with_angles(n, sns) ==
    << Var("voltage_angles",
           [k \in {<<"voltage_angles", bus, t>> :
                      bus \in Range(n.buses_i), t \in Range(sns)}
            |-> Bounds("Reals", None, None)]),
       Constraint("slack_angle",
           [k \in {<<"slack_angle", sub, t>> :
                      sub \in Range(n.sub_networks_i), t \in Range(sns)}
            |-> Listed(<<Term(Num(1),
                              <<"voltage_angles",
                                n.sub_networks[k[2]].slack_bus, k[3]>>)>>,
                       "==", Num(0))]),
       passive_branch_p(n, sns),
       Constraint("passive_branch_p_def",
           [k \in {<<"passive_branch_p_def", b[1], b[2], t>> :
                      b \in Range(n.passive_branches_i), t \in Range(sns)}
            |-> angles_flow(n, <<k[2], k[3]>>, k[4])]) >>

\* calculate_PTDF of the topology collaborator
calculate_PTDF(n, sub) == n.sub_networks[sub].PTDF

\* the entries up to the tolerance set to zero
kill_small_inclusive(PTDF, tolerance) ==
    [i \in 1..Len(PTDF) |->
        [j \in 1..Len(PTDF[i]) |->
            IF LessEq(AbsNum(PTDF[i][j]), tolerance) THEN Num(0)
            ELSE PTDF[i][j]]]

\* PTDF[abs(PTDF) < ptdf_tolerance] = 0
kill_small(PTDF, tolerance) ==
    [i \in 1..Len(PTDF) |->
        [j \in 1..Len(PTDF[i]) |->
            IF Less(AbsNum(PTDF[i][j]), tolerance) THEN Num(0)
            ELSE PTDF[i][j]]]

\* sub_network.PTDF of every sub-network after the loop over sub-networks
ptdf_after_build(n, tolerance, current) ==
    [sub \in DOMAIN current |->
        IF Len(n.sub_networks[sub].branches_i) > 0
        THEN kill_small(calculate_PTDF(n, sub), tolerance)
        ELSE current[sub]]

\* the constraint of branch b at snapshot sn under "ptdf"
ptdf_flow(n, PTDF, balance, b, sn) ==
    LET sub == n.passive_branches[b].sub_network
        i == branch_row(n, sub, b)
        buses_o == n.sub_networks[sub].buses_o
        lhs == ExprSum(ConcatMap([j \in 1..Len(buses_o) |-> j],
                 LAMBDA j :
                   IF PTDF[sub][i + 1][j] # Num(0)
                   THEN <<ExprMul(PTDF[sub][i + 1][j],
                                  balance[<<buses_o[j], sn>>])>>
                   ELSE <<>>))
        rhs == LExpression(
                 <<Term(Num(1), <<"passive_branch_p", b[1], b[2], sn>>)>>,
                 Num(0))
    IN  Normal(LConstraint(lhs, "==", rhs))

define_passive_branch_flows_with_PTDF(n, sns, tolerance, current, balance) ==
    LET PTDF == ptdf_after_build(n, tolerance, current)
    IN  << passive_branch_p(n, sns),
           Constraint("passive_branch_p_def",
               [k \in {<<"passive_branch_p_def", b[1], b[2], t>> :
                          b \in Range(n.passive_branches_i), t \in Range(sns)}
                |-> ptdf_flow(n, PTDF, balance, <<k[2], k[3]>>, k[4])]) >>

\* cycle_index: (sub-network, j) for every column j of C, zero-based
cycle_index(n) ==
    {<<sub, j>> \in Range(n.sub_networks_i) \X (0..Len(n.passive_branches_i)) :
        j < NCols(n.sub_networks[sub].C)}

\* the constraint of branch b at snapshot sn under "cycles"
cycles_flow(n, balance, b, sn) ==
    LET sub == n.passive_branches[b].sub_network
        sn_ == n.sub_networks[sub]
        i == branch_row(n, sub, b)
        expr == LExpression(
                  ConcatMap([j \in 1..NCols(sn_.C) |-> j],
                    LAMBDA j :
                      IF sn_.C[i + 1][j] # 0
                      THEN <<Term(Num(sn_.C[i + 1][j]),
                                  <<"cycles", sub, j - 1, sn>>)>>
                      ELSE <<>>),
                  Num(0))
        lhs == ExprAdd(expr,
                 ExprSum(ConcatMap([j \in 1..NCols(sn_.T) |-> j],
                   LAMBDA j :
                     IF sn_.T[i + 1][j] # 0
                     THEN <<ExprMul(Num(sn_.T[i + 1][j]),
                                    balance[<<sn_.buses_i[j], sn>>])>>
                     ELSE <<>>)))
        rhs == LExpression(
                 <<Term(Num(1), <<"passive_branch_p", b[1], b[2], sn>>)>>,
                 Num(0))
    IN  Normal(LConstraint(lhs, "==", rhs))

\* a variant of the voltage law that leaves out the impedances
cycle_constraint_unweighted(n, sub, j, snapshot) ==
    LET sn_ == n.sub_networks[sub]
        lhs == LExpression(
                 ConcatMap([i \in 1..Len(sn_.branches_i) |-> i],
                   LAMBDA i :
                     IF sn_.C[i][j + 1] # 0
                     THEN <<Term(Num(sn_.C[i][j + 1]),
                                 <<"passive_branch_p", sn_.branches_i[i][1],
                                   sn_.branches_i[i][2], snapshot>>)>>
                     ELSE <<>>),
                 Num(0))
    IN  Normal(LConstraint(lhs, "==", EmptyExpression))

\* the Kirchhoff voltage law of cycle j of sub-network sub at a snapshot
cycle_constraint(n, sub, j, snapshot) ==
    LET sn_ == n.sub_networks[sub]
        lhs == LExpression(
                 ConcatMap([i \in 1..Len(sn_.branches_i) |-> i],
                   LAMBDA i :
                     IF sn_.C[i][j + 1] # 0
                     THEN <<Term(Mul(impedance(n, sub, sn_.branches_i[i]),
                                     Num(sn_.C[i][j + 1])),
                                 <<"passive_branch_p", sn_.branches_i[i][1],
                                   sn_.branches_i[i][2], snapshot>>)>>
                     ELSE <<>>),
                 Num(0))
    IN  Normal(LConstraint(lhs, "==", EmptyExpression))

cycle_constraints(n, sns) ==
    Constraint("cycle_constraints",
        [k \in {<<"cycle_constraints", c[1], c[2], t>> :
                   c \in cycle_index(n), t \in Range(sns)}
         |-> cycle_constraint(n, k[2], k[3], k[4])])

define_passive_branch_flows_with_cycles(n, sns, balance) ==
    << Var("cycles",
           [k \in {<<"cycles", c[1], c[2], t>> :
                      c \in cycle_index(n), t \in Range(sns)}
            |-> Bounds("Reals", None, None)]),
       passive_branch_p(n, sns),
       Constraint("passive_branch_p_def",
           [k \in {<<"passive_branch_p_def", b[1], b[2], t>> :
                      b \in Range(n.passive_branches_i), t \in Range(sns)}
            |-> cycles_flow(n, balance, <<k[2], k[3]>>, k[4])]),
       cycle_constraints(n, sns) >>

define_passive_branch_flows_with_kirchhoff(n, sns) ==
    << passive_branch_p(n, sns), cycle_constraints(n, sns) >>

\* an unrecognised formulation matches no branch of the if-chain
define_passive_branch_flows(n, sns, f, tolerance, current, balance) ==
    IF f = "angles" THEN define_passive_branch_flows_with_angles(n, sns)
    ELSE IF f = "ptdf"
    THEN define_passive_branch_flows_with_PTDF(n, sns, tolerance, current,
                                               balance)
    ELSE IF f = "cycles"
    THEN define_passive_branch_flows_with_cycles(n, sns, balance)
    ELSE IF f = "kirchhoff"
    THEN define_passive_branch_flows_with_kirchhoff(n, sns)
    ELSE <<>>

-----------------------------------------------------------------------------
(* define_passive_branch_constraints *)

flow_upper(n, b, sn) ==
    IF n.passive_branches[b].s_nom_extendable
    THEN Listed(<<Term(Num(1), <<"passive_branch_p", b[1], b[2], sn>>),
                  Term(Num(-1), <<"passive_branch_s_nom", b[1], b[2]>>)>>,
                "<=", Num(0))
    ELSE Listed(<<Term(Num(1), <<"passive_branch_p", b[1], b[2], sn>>)>>,
                "<=", n.passive_branches[b].s_nom)

\* a variant whose lower limit of a fixed branch is +s_nom
flow_lower_unsigned(n, b, sn) ==
    IF n.passive_branches[b].s_nom_extendable
    THEN Listed(<<Term(Num(1), <<"passive_branch_p", b[1], b[2], sn>>),
                  Term(Num(1), <<"passive_branch_s_nom", b[1], b[2]>>)>>,
                ">=", Num(0))
    ELSE Listed(<<Term(Num(1), <<"passive_branch_p", b[1], b[2], sn>>)>>,
                ">=", n.passive_branches[b].s_nom)

flow_lower(n, b, sn) ==
    IF n.passive_branches[b].s_nom_extendable
    THEN Listed(<<Term(Num(1), <<"passive_branch_p", b[1], b[2], sn>>),
                  Term(Num(1), <<"passive_branch_s_nom", b[1], b[2]>>)>>,
                ">=", Num(0))
    ELSE Listed(<<Term(Num(1), <<"passive_branch_p", b[1], b[2], sn>>)>>,
                ">=", Neg(n.passive_branches[b].s_nom))

define_passive_branch_constraints(n, sns) ==
    << Constraint("flow_upper",
           [k \in {<<"flow_upper", b[1], b[2], t>> :
                      b \in Range(n.passive_branches_i), t \in Range(sns)}
            |-> flow_upper(n, <<k[2], k[3]>>, k[4])]),
       Constraint("flow_lower",
           [k \in {<<"flow_lower", b[1], b[2], t>> :
                      b \in Range(n.passive_branches_i), t \in Range(sns)}
            |-> flow_lower(n, <<k[2], k[3]>>, k[4])]) >>

-----------------------------------------------------------------------------
(* define_nodal_balance_constraints, define_sub_network_balance_constraints *)

\* the terms passive branch b appends to the balance of bus at snapshot sn
branch_balance_terms(n, b, bus, sn) ==
    (IF n.passive_branches[b].bus0 = bus
     THEN <<Term(Num(-1), <<"passive_branch_p", b[1], b[2], sn>>)>>
     ELSE <<>>) \o
    (IF n.passive_branches[b].bus1 = bus
     THEN <<Term(Num(1), <<"passive_branch_p", b[1], b[2], sn>>)>>
     ELSE <<>>)

\* network._p_balance after the passive branch terms are appended
balance_with_branches(n, balance) ==
    [k \in DOMAIN balance |->
        LExpression(balance[k].variables \o
                    ConcatMap(n.passive_branches_i,
                              LAMBDA b : branch_balance_terms(n, b, k[1], k[2])),
                    balance[k].constant)]

define_nodal_balance_constraints(n, sns, balance) ==
    LET full == balance_with_branches(n, balance)
    IN  << Constraint("power_balance",
               [k \in {<<"power_balance", bus, t>> :
                          bus \in Range(n.buses_i), t \in Range(sns)}
                |-> Normal(LConstraint(full[<<k[2], k[3]>>], "==",
                                       EmptyExpression))]) >>

\* a variant that adds the balances of the non-slack buses only
sub_network_balance_without_slack(n, balance, sub, sn) ==
    LET lhs == ExprSum(MapSeq(n.sub_networks[sub].pvpqs,
                              LAMBDA bus : balance[<<bus, sn>>]))
    IN  Normal(LConstraint(lhs, "==", EmptyExpression))

\* sn_balance[sub, sn]: the balances of the buses of the sub-network, added
sub_network_balance(n, balance, sub, sn) ==
    LET lhs == ExprSum(MapSeq(n.sub_networks[sub].buses_i,
                              LAMBDA bus : balance[<<bus, sn>>]))
    IN  Normal(LConstraint(lhs, "==", EmptyExpression))

define_sub_network_balance_constraints(n, sns, balance) ==
    << Constraint("sub_network_balance_constraint",
           [k \in {<<"sub_network_balance_constraint", sub, t>> :
                      sub \in Range(n.sub_networks_i), t \in Range(sns)}
            |-> sub_network_balance(n, balance, k[2], k[3])]) >>

\* a variant that balances every recognised formulation per bus
balance_family_all_nodal(f) ==
    IF f \in {"angles", "kirchhoff", "ptdf", "cycles"} THEN "nodal"
    ELSE "none"

\* the balance family of the formulation: per bus, per sub-network, or none
balance_family(f) ==
    IF f \in {"angles", "kirchhoff"} THEN "nodal"
    ELSE IF f \in {"ptdf", "cycles"} THEN "sub_network"
    ELSE "none"

-----------------------------------------------------------------------------
(* define_co2_constraint *)

\* a variant that counts the emissions per unit of output, not of fuel
define_co2_constraint_per_output(n, sns) ==
    LET co2_gens ==
            ConcatMap(n.generators_i, LAMBDA gen :
              MapSeq(sns, LAMBDA sn :
                Term(Mul(n.carriers[n.generators[gen].carrier].co2_emissions,
                         Num(n.snapshot_weightings[sn])),
                     <<"generator_p", gen, sn>>)))
        co2_stores ==
            ConcatMap(n.stores_i, LAMBDA store :
              MapSeq(sns, LAMBDA sn :
                Term(Mul(n.carriers[n.buses[n.stores[store].bus].carrier]
                            .co2_emissions,
                         Num(n.snapshot_weightings[sn])),
                     <<"store_p", store, sn>>)))
    IN  << Constraint("co2_constraint",
               [k \in {<<"co2_constraint">>} |->
                   Listed(co2_gens \o co2_stores, "<=", n.co2_limit)]) >>

define_co2_constraint(n, sns) ==
    LET co2_gens ==
            ConcatMap(n.generators_i, LAMBDA gen :
              MapSeq(sns, LAMBDA sn :
                Term(Mul(Mul(n.carriers[n.generators[gen].carrier].co2_emissions,
                             Inv(n.generators[gen].efficiency)),
                         Num(n.snapshot_weightings[sn])),
                     <<"generator_p", gen, sn>>)))
        co2_stores ==
            ConcatMap(n.stores_i, LAMBDA store :
              MapSeq(sns, LAMBDA sn :
                Term(Mul(n.carriers[n.buses[n.stores[store].bus].carrier]
                            .co2_emissions,
                         Num(n.snapshot_weightings[sn])),
                     <<"store_p", store, sn>>)))
    IN  << Constraint("co2_constraint",
               [k \in {<<"co2_constraint">>} |->
                   Listed(co2_gens \o co2_stores, "<=", n.co2_limit)]) >>

-----------------------------------------------------------------------------
(* define_linear_objective *)

RECURSIVE SumNum(_)
SumNum(xs) == IF xs = <<>> THEN Num(0) ELSE Add(Head(xs), SumNum(Tail(xs)))

\* l_objective(model, objective)
Objective(expression) == [kind |-> "Objective", expression |-> expression]

\* a variant that leaves out the weighting of the snapshot
marginal_terms_unweighted(n, sns, index, table, variable) ==
    ConcatMap(index, LAMBDA x :
      MapSeq(sns, LAMBDA sn :
        Term(table[x].marginal_cost, <<variable, x, sn>>)))

\* the terms marginal_cost * weighting of a dispatch variable
marginal_terms(n, sns, index, table, variable) ==
    ConcatMap(index, LAMBDA x :
      MapSeq(sns, LAMBDA sn :
        Term(Mul(table[x].marginal_cost, Num(n.snapshot_weightings[sn])),
             <<variable, x, sn>>)))

define_linear_objective(n, sns) ==
    LET extendable_generators ==
            SelectSeq(n.generators_i,
                      LAMBDA g : n.generators[g].p_nom_extendable)
        ext_sus ==
            SelectSeq(n.storage_units_i,
                      LAMBDA x : n.storage_units[x].p_nom_extendable)
        ext_stores ==
            SelectSeq(n.stores_i, LAMBDA x : n.stores[x].e_nom_extendable)
        extendable_passive_branches ==
            SelectSeq(n.passive_branches_i,
                      LAMBDA b : n.passive_branches[b].s_nom_extendable)
        extendable_links ==
            SelectSeq(n.links_i, LAMBDA l : n.links[l].p_nom_extendable)
        capital == 
            MapSeq(extendable_generators, LAMBDA g :
                Term(n.generators[g].capital_cost, <<"generator_p_nom", g>>)) \o
            MapSeq(ext_sus, LAMBDA x :
                Term(n.storage_units[x].capital_cost, <<"storage_p_nom", x>>)) \o
            MapSeq(ext_stores, LAMBDA x :
                Term(n.stores[x].capital_cost, <<"store_e_nom", x>>)) \o
            MapSeq(extendable_passive_branches, LAMBDA b :
                Term(n.passive_branches[b].capital_cost,
                     <<"passive_branch_s_nom", b[1], b[2]>>)) \o
            MapSeq(extendable_links, LAMBDA l :
                Term(n.links[l].capital_cost, <<"link_p_nom", l>>))
        existing ==
            SumNum(
              MapSeq(extendable_generators, LAMBDA g :
                Mul(n.generators[g].capital_cost, n.generators[g].p_nom)) \o
              MapSeq(ext_sus, LAMBDA x :
                Mul(n.storage_units[x].capital_cost, n.storage_units[x].p_nom)) \o
              MapSeq(ext_stores, LAMBDA x :
                Mul(n.stores[x].capital_cost, n.stores[x].e_nom)) \o
              MapSeq(extendable_passive_branches, LAMBDA b :
                Mul(n.passive_branches[b].capital_cost,
                    n.passive_branches[b].s_nom)) \o
              MapSeq(extendable_links, LAMBDA l :
                Mul(n.links[l].capital_cost, n.links[l].p_nom)))
    IN  << Objective(LExpression(
             marginal_terms(n, sns, n.generators_i, n.generators,
                            "generator_p") \o
             marginal_terms(n, sns, n.storage_units_i, n.storage_units,
                            "storage_p_dispatch") \o
             marginal_terms(n, sns, n.stores_i, n.stores, "store_p") \o
             marginal_terms(n, sns, n.links_i, n.links, "link_p") \o
             capital,
             Neg(existing))) >>

-----------------------------------------------------------------------------
(* Executing declarations on network.model *)

\* ConcreteModel("Linear Optimal Power Flow")
ConcreteModel ==
    [components |-> {}, variables |-> <<>>, constraints |-> <<>>,
     objective |-> None]

\* the variables a declaration reads
referenced(stmt) ==
    IF stmt.kind = "Constraint"
    THEN UNION {{stmt.members[k].variables[i][2] :
                    i \in 1..Len(stmt.members[k].variables)} :
                k \in DOMAIN stmt.members}
    ELSE IF stmt.kind = "Objective"
    THEN {stmt.expression.variables[i][2] :
             i \in 1..Len(stmt.expression.variables)}
    ELSE IF stmt.kind = "Expressions"
    THEN UNION {{stmt.members[k].variables[i][2] :
                    i \in 1..Len(stmt.members[k].variables)} :
                k \in DOMAIN stmt.members}
    ELSE {}

\* network.model.<component>[index] of a variable not declared so far raises
\* AttributeError (no such component) or KeyError (no such index)
missing(m, stmt) == {v \in referenced(stmt) : v \notin DOMAIN m.variables}

raised(m, stmt) ==
    LET v == CHOOSE v \in missing(m, stmt) : TRUE
    IN  IF v[1] \in m.components THEN <<"KeyError", v[1]>>
        ELSE <<"AttributeError", v[1]>>

declare(m, stmt) ==
    IF stmt.kind = "Var"
    THEN [m EXCEPT !.components = @ \cup {stmt.name},
                   !.variables = stmt.members @@ @]
    ELSE IF stmt.kind = "Constraint"
    THEN [m EXCEPT !.components = @ \cup {stmt.name},
                   !.constraints = stmt.members @@ @]
    ELSE IF stmt.kind = "Objective"
    THEN [m EXCEPT !.components = @ \cup {"objective"},
                   !.objective = stmt.expression]
    ELSE m

\* the declarations of one declarator in order, up to the first that raises
RECURSIVE execute(_, _)
execute(m, stmts) ==
    IF stmts = <<>> THEN [model |-> m, error |-> None]
    ELSE IF missing(m, Head(stmts)) # {}
    THEN [model |-> m, error |-> raised(m, Head(stmts))]
    ELSE execute(declare(m, Head(stmts)), Tail(stmts))

\* the expressions of network._p_balance read model variables as well
Expressions(members) == [kind |-> "Expressions", members |-> members]

-----------------------------------------------------------------------------
(* The points a solver may return: the assignments of the variables of the *)
(* model that satisfy its bounds and constraints                           *)

\* the variables of a normalised constraint
variables_of(c) == {c.variables[i][2] : i \in 1..Len(c.variables)}

\* the coefficient of variable v in a list of terms
coefficient(terms, v) ==
    SumNum([i \in 1..Len(terms) |->
              IF terms[i][2] = v THEN terms[i][1] ELSE Num(0)])

\* the value of the terms whose variable val assigns
value_of(terms, val) ==
    SumNum([i \in 1..Len(terms) |->
              IF terms[i][2] \in DOMAIN val
              THEN Mul(terms[i][1], val[terms[i][2]])
              ELSE Num(0)])

\* the value of an expression under an assignment of all its variables
evaluate(e, val) == Add(value_of(e.variables, val), e.constant)

compare(lhs, sense, rhs) ==
    IF sense = "==" THEN lhs = rhs
    ELSE IF sense = "<=" THEN LessEq(lhs, rhs)
    ELSE LessEq(rhs, lhs)

\* a constraint all of whose variables are assigned holds
satisfied(c, val) == compare(value_of(c.variables, val), c.sense, c.constant)

\* the bounds and the domain of a variable admit x
within(b, x) ==
    /\ b.lb = None \/ LessEq(b.lb, x)
    /\ b.ub = None \/ LessEq(x, b.ub)
    /\ b.domain = "NonNegativeReals" => LessEq(Num(0), x)

\* the values tried for a variable no equality determines
Grid(v) ==
    IF v[1] = "passive_branch_p"
    THEN {Frac(k, 4) : k \in (-4 * MaxFlow)..(4 * MaxFlow)}
    ELSE {Num(k) : k \in (-MaxFlow)..(2 * MaxFlow)}

\* the assignments of the variables vs (key -> bounds) that extend val and
\* satisfy the constraints cs (key -> constraint): a variable that is the one
\* unassigned variable of an equality takes the value the equality gives it,
\* any other variable ranges over its grid
RECURSIVE solutions(_, _, _)
solutions(vs, cs, val) ==
    LET open == [k \in DOMAIN cs |-> variables_of(cs[k]) \ DOMAIN val]
        violated == \E k \in DOMAIN cs :
                        open[k] = {} /\ ~satisfied(cs[k], val)
        units == {k \in DOMAIN cs :
                    /\ cs[k].sense = "=="
                    /\ Cardinality(open[k]) = 1
                    /\ \A v \in open[k] :
                          coefficient(cs[k].variables, v) # Num(0)}
        left == DOMAIN vs \ DOMAIN val
    IN  IF violated THEN {}
        ELSE IF units # {}
        THEN LET k == CHOOSE k \in units : TRUE
                 v == CHOOSE v \in open[k] : TRUE
                 x == Mul(Sub(cs[k].constant,
                              value_of(cs[k].variables, val)),
                          Inv(coefficient(cs[k].variables, v)))
             IN  IF within(vs[v], x)
                 THEN solutions(vs, cs, (v :> x) @@ val)
                 ELSE {}
        ELSE IF left = {} THEN {val}
        ELSE LET flows == {v \in left : v[1] = "passive_branch_p"}
                 v == IF flows # {} THEN CHOOSE v \in flows : TRUE
                      ELSE CHOOSE v \in left : TRUE
             IN  UNION {solutions(vs, cs, (v :> x) @@ val) :
                          x \in {x \in Grid(v) : within(vs[v], x)}}

\* the components that are not indexed by a snapshot
Untimed ==
    {"generator_p_nom", "storage_p_nom", "store_e_nom",
     "passive_branch_s_nom", "link_p_nom", "co2_constraint"}

\* the variables and the constraints of snapshot t
at_snapshot(keyed, t) ==
    LET keys == {k \in DOMAIN keyed : k[1] \notin Untimed /\ k[Len(k)] = t}
    IN  [k \in keys |-> keyed[k]]

\* the values of passive_branch_p at snapshot t, all on the grid, in the
\* points of model m
feasible_flows(n, m, t) ==
    LET flow(b) == <<"passive_branch_p", b[1], b[2], t>>
        points == solutions(at_snapshot(m.variables, t),
                            at_snapshot(m.constraints, t), <<>>)
        on_grid == {val \in points :
                      \A b \in Range(n.passive_branches_i) :
                          val[flow(b)] \in Grid(flow(b))}
    IN  {[b \in Range(n.passive_branches_i) |-> val[flow(b)]] :
         val \in on_grid}

\* the model network_lopf builds when no declaration raises
lopf_model(n, sns, f, tolerance, current) ==
    LET balance == define_nodal_balances(n, sns)
    IN  execute(ConcreteModel,
            define_generator_variables_constraints(n, sns) \o
            define_storage_variables_constraints(n, sns) \o
            define_store_variables_constraints(n, sns) \o
            define_branch_extension_variables(n, sns) \o
            define_link_flows(n, sns) \o
            <<Expressions(balance)>> \o
            define_passive_branch_flows(n, sns, f, tolerance, current,
                                        balance) \o
            define_passive_branch_constraints(n, sns) \o
            (IF balance_family(f) = "nodal"
             THEN define_nodal_balance_constraints(n, sns, balance)
             ELSE IF balance_family(f) = "sub_network"
             THEN define_sub_network_balance_constraints(n, sns, balance)
             ELSE <<>>) \o
            (IF n.co2_limit # None THEN define_co2_constraint(n, sns)
             ELSE <<>>) \o
            define_linear_objective(n, sns)).model

-----------------------------------------------------------------------------
(* network_lopf: the arguments of a call *)

Formulations == {"angles", "ptdf", "cycles", "kirchhoff"}

\* the snapshots first..last of the network, in order
Window(first, last) == [i \in 1..(last - first + 1) |-> first + i - 1]

Windows == {Window(a, b) : a \in 1..NSnap, b \in 1..NSnap} \ {<<>>}

Limits == {None, Num(5)}

Tolerances == {Num(0), Frac(1, 2)}

\* the result fields of the network, every entry holding v
PriorOutput(n, v) ==
    LET series(index) ==
            [t \in Range(n.snapshots) |-> [x \in Range(index) |-> v]]
        column(index) == [x \in Range(index) |-> v]
    IN  [objective |-> v,
         generators_t_p |-> series(n.generators_i),
         storage_units_t_p |-> series(n.storage_units_i),
         storage_units_t_state_of_charge |-> series(n.storage_units_i),
         storage_units_t_spill |-> series(n.storage_units_i),
         stores_t_p |-> series(n.stores_i),
         stores_t_e |-> series(n.stores_i),
         loads_t_p |-> series(n.loads_i),
         buses_t_p |-> series(n.buses_i),
         branches_t_p0 |-> series(n.passive_branches_i),
         branches_t_p1 |-> series(n.passive_branches_i),
         links_t_p0 |-> series(n.links_i),
         links_t_p1 |-> series(n.links_i),
         buses_t_v_ang |-> series(n.buses_i),
         buses_t_marginal_price |-> series(n.buses_i),
         buses_t_v_mag_pu |-> series(n.buses_i),
         generators_p_nom_opt |-> column(n.generators_i),
         storage_units_p_nom_opt |-> column(n.storage_units_i),
         stores_e_nom_opt |-> column(n.stores_i),
         branches_s_nom_opt |-> column(n.passive_branches_i),
         links_p_nom_opt |-> column(n.links_i)]

\* the result fields of the network before the call: as constructed, or as
\* an earlier call left them
Priors == {Num(0), Num(7)}

\* the attribute PTDF of the sub-networks before any call computed it
NoPTDF(n) == [sub \in Range(n.sub_networks_i) |-> None]

Init ==
    /\ network \in {FullNetwork(c) : c \in Limits} \cup
                   {IsolatedNetwork(c) : c \in Limits} \cup {RingNetwork}
    /\ sub_network_PTDF = NoPTDF(network)
    /\ snapshots \in Windows \cup {None}
    /\ formulation \in Formulations \cup {"other"}
    /\ ptdf_tolerance \in Tolerances
    /\ extra_functionality \in BOOLEAN
    /\ pc = "model"
    /\ model = None
    /\ p_balance = None
    /\ results = None
    /\ solution = None
    /\ output \in {PriorOutput(network, v) : v \in Priors}
    /\ log = <<>>

-----------------------------------------------------------------------------
(* network_lopf: the build *)

\* one declarator: its declarations are executed on network.model; an
\* exception ends the call with the model as built so far
Declarator(here, stmts, next) ==
    /\ pc = here
    /\ LET r == execute(model, stmts)
       IN  /\ model' = r.model
           /\ pc' = IF r.error = None THEN next ELSE "raised"
           /\ log' = IF r.error = None THEN Append(log, <<here>>)
                     ELSE log \o <<<<here>>, r.error>>

\* snapshots defaults to [network.now]; network.model = ConcreteModel(...)
NewModel ==
    /\ pc = "model"
    /\ snapshots' = IF snapshots = None THEN <<network.now>> ELSE snapshots
    /\ model' = ConcreteModel
    /\ pc' = "generators"
    /\ log' = Append(log, <<"model">>)
    /\ UNCHANGED <<network, sub_network_PTDF, formulation, ptdf_tolerance,
                   extra_functionality, p_balance, results, solution, output>>

DefineGenerators ==
    /\ Declarator("generators",
                  define_generator_variables_constraints(network, snapshots),
                  "storage")
    /\ UNCHANGED <<network, sub_network_PTDF, snapshots, formulation,
                   ptdf_tolerance, extra_functionality, p_balance, results,
                   solution, output>>

DefineStorage ==
    /\ Declarator("storage",
                  define_storage_variables_constraints(network, snapshots),
                  "stores")
    /\ UNCHANGED <<network, sub_network_PTDF, snapshots, formulation,
                   ptdf_tolerance, extra_functionality, p_balance, results,
                   solution, output>>

DefineStores ==
    /\ Declarator("stores",
                  define_store_variables_constraints(network, snapshots),
                  "branch_extension")
    /\ UNCHANGED <<network, sub_network_PTDF, snapshots, formulation,
                   ptdf_tolerance, extra_functionality, p_balance, results,
                   solution, output>>

\* a variant of the step below that goes on to the nodal balances, leaving
\* out the link flows
DefineBranchExtensionThenBalances ==
    /\ Declarator("branch_extension",
                  define_branch_extension_variables(network, snapshots),
                  "nodal_balances")
    /\ UNCHANGED <<network, sub_network_PTDF, snapshots, formulation,
                   ptdf_tolerance, extra_functionality, p_balance, results,
                   solution, output>>

DefineBranchExtension ==
    /\ Declarator("branch_extension",
                  define_branch_extension_variables(network, snapshots),
                  "links")
    /\ UNCHANGED <<network, sub_network_PTDF, snapshots, formulation,
                   ptdf_tolerance, extra_functionality, p_balance, results,
                   solution, output>>

DefineLinks ==
    /\ Declarator("links", define_link_flows(network, snapshots),
                  "nodal_balances")
    /\ UNCHANGED <<network, sub_network_PTDF, snapshots, formulation,
                   ptdf_tolerance, extra_functionality, p_balance, results,
                   solution, output>>

DefineNodalBalances ==
    /\ Declarator("nodal_balances",
                  <<Expressions(define_nodal_balances(network, snapshots))>>,
                  "passive_branch_flows")
    /\ p_balance' = IF pc' = "raised" THEN p_balance
                    ELSE define_nodal_balances(network, snapshots)
    /\ UNCHANGED <<network, sub_network_PTDF, snapshots, formulation,
                   ptdf_tolerance, extra_functionality, results, solution,
                   output>>

DefinePassiveBranchFlows ==
    /\ Declarator("passive_branch_flows",
                  define_passive_branch_flows(network, snapshots, formulation,
                                              ptdf_tolerance, sub_network_PTDF,
                                              p_balance),
                  "passive_branch_constraints")
    /\ sub_network_PTDF' =
          IF formulation = "ptdf"
          THEN ptdf_after_build(network, ptdf_tolerance, sub_network_PTDF)
          ELSE sub_network_PTDF
    /\ UNCHANGED <<network, snapshots, formulation, ptdf_tolerance,
                   extra_functionality, p_balance, results, solution, output>>

DefinePassiveBranchConstraints ==
    /\ Declarator("passive_branch_constraints",
                  define_passive_branch_constraints(network, snapshots),
                  "balance")
    /\ UNCHANGED <<network, sub_network_PTDF, snapshots, formulation,
                   ptdf_tolerance, extra_functionality, p_balance, results,
                   solution, output>>

\* if formulation in ["angles", "kirchhoff"] ... elif in ["ptdf", "cycles"]
DefineBalance ==
    /\ Declarator("balance",
                  IF balance_family(formulation) = "nodal"
                  THEN define_nodal_balance_constraints(network, snapshots,
                                                        p_balance)
                  ELSE IF balance_family(formulation) = "sub_network"
                  THEN define_sub_network_balance_constraints(network,
                                                    snapshots, p_balance)
                  ELSE <<>>,
                  "co2")
    /\ p_balance' = IF balance_family(formulation) = "nodal"
                    THEN balance_with_branches(network, p_balance)
                    ELSE p_balance
    /\ UNCHANGED <<network, sub_network_PTDF, snapshots, formulation,
                   ptdf_tolerance, extra_functionality, results, solution,
                   output>>

\* if network.co2_limit is not None
DefineCO2 ==
    /\ Declarator("co2",
                  IF network.co2_limit # None
                  THEN define_co2_constraint(network, snapshots)
                  ELSE <<>>,
                  "objective")
    /\ UNCHANGED <<network, sub_network_PTDF, snapshots, formulation,
                   ptdf_tolerance, extra_functionality, p_balance, results,
                   solution, output>>

\* define_linear_objective, then model.dual = Suffix(...)
DefineObjective ==
    /\ pc = "objective"
    /\ LET r == execute(model, define_linear_objective(network, snapshots))
       IN  /\ model' = IF r.error = None
                       THEN [r.model EXCEPT !.components = @ \cup {"dual"}]
                       ELSE r.model
           /\ pc' = IF r.error = None THEN "extra_functionality" ELSE "raised"
           /\ log' = IF r.error = None THEN Append(log, <<"objective">>)
                     ELSE log \o <<<<"objective">>, r.error>>
    /\ UNCHANGED <<network, sub_network_PTDF, snapshots, formulation,
                   ptdf_tolerance, extra_functionality, p_balance, results,
                   solution, output>>

\* a variant of the step below that never calls the callback
ExtraFunctionalityNeverCalled ==
    /\ pc = "extra_functionality"
    /\ log' = log
    /\ p_balance' = None
    /\ pc' = "solve"
    /\ UNCHANGED <<network, sub_network_PTDF, snapshots, formulation,
                   ptdf_tolerance, extra_functionality, model, results,
                   solution, output>>

\* if extra_functionality is not None: extra_functionality(network,
\* snapshots); then del network._p_balance
ExtraFunctionality ==
    /\ pc = "extra_functionality"
    /\ log' = IF extra_functionality
              THEN Append(log, <<"extra_functionality">>)
              ELSE log
    /\ p_balance' = None
    /\ pc' = "solve"
    /\ UNCHANGED <<network, sub_network_PTDF, snapshots, formulation,
                   ptdf_tolerance, extra_functionality, model, results,
                   solution, output>>

Build ==
    \/ NewModel
    \/ DefineGenerators
    \/ DefineStorage
    \/ DefineStores
    \/ DefineBranchExtension
    \/ DefineLinks
    \/ DefineNodalBalances
    \/ DefinePassiveBranchFlows
    \/ DefinePassiveBranchConstraints
    \/ DefineBalance
    \/ DefineCO2
    \/ DefineObjective
    \/ ExtraFunctionality

-----------------------------------------------------------------------------
(* The solver: opt.solve(network.model, ...) *)

Statuses == {"ok", "warning", "error"}

Terminations == {"optimal", "other", "infeasible"}

Seeds == {1}

ElementRank(name) ==
    IF name \in {"G1", "S1", "E1", "K1", "L1", "b1", "D1", "0"} THEN 1
    ELSE IF name \in {"G2", "S2", "E2", "K2", "L2", "b2", "D2", "1"} THEN 2
    ELSE IF name \in {"G3", "L4", "b3"} THEN 3
    ELSE IF name \in {"G4", "T1", "d1"} THEN 4
    ELSE 5

\* a value of the solver for a key: distinct for the keys of one component
solver_value(seed, k) ==
    LET timed == k[1] \notin Untimed
        t == IF timed THEN k[Len(k)] ELSE 0
        rank == IF k[1] \in {"cycles", "cycle_constraints"} THEN 1 + k[3]
                ELSE IF Len(k) = 1 THEN 0
                ELSE ElementRank(k[Len(k) - (IF timed THEN 1 ELSE 0)])
    IN  seed + 10 * rank + t

\* primal values of every variable, dual values of every constraint
solver_values(m, seed) ==
    [primal |-> [k \in DOMAIN m.variables |-> solver_value(seed, k)],
     dual |-> [k \in DOMAIN m.constraints |-> solver_value(seed, k)]]

\* network.results = opt.solve(...): the solver is an outside program; it
\* answers with any status and termination condition, and with values
Solve ==
    /\ pc = "solve"
    /\ \E status \in Statuses, termination \in Terminations, seed \in Seeds :
          /\ results' = [status |-> status, termination |-> termination,
                         lower_bound |-> Num(seed)]
          /\ solution' = solver_values(model, seed)
    /\ pc' = "status"
    /\ log' = Append(log, <<"solve">>)
    /\ UNCHANGED <<network, sub_network_PTDF, snapshots, formulation,
                   ptdf_tolerance, extra_functionality, model, p_balance,
                   output>>

-----------------------------------------------------------------------------
(* extract_optimisation_results *)

\* df.loc[snapshots] = ...: the rows of the window are set to value(t, x),
\* the other rows are kept
set_rows(df, sns, value(_, _)) ==
    [t \in DOMAIN df |->
        IF t \in Range(sns) THEN [x \in DOMAIN df[t] |-> value(t, x)]
        ELSE df[t]]

\* as_series(indexedvar)[x, t], NaN (None) where the variable has no such key
as_series(primal, name, x, t) ==
    IF <<name, x, t>> \in DOMAIN primal THEN Num(primal[<<name, x, t>>])
    ELSE None

\* the sum of value(x) over the elements of index attached to bus
bus_sum(index, bus_of(_), bus, value(_)) ==
    SumNum(MapSeq(index, LAMBDA x :
                    IF bus_of(x) = bus THEN value(x) ELSE Num(0)))

\* lines 859-902: the objective and the one-port series
extract_one_ports(n, sns, primal, res, out) ==
    LET gen_p == set_rows(out.generators_t_p, sns,
                    LAMBDA t, g : as_series(primal, "generator_p", g, t))
        su_p == set_rows(out.storage_units_t_p, sns,
                    LAMBDA t, x :
                      Sub(as_series(primal, "storage_p_dispatch", x, t),
                          as_series(primal, "storage_p_store", x, t)))
        su_soc == set_rows(out.storage_units_t_state_of_charge, sns,
                    LAMBDA t, x : as_series(primal, "state_of_charge", x, t))
        any_inflow == \E t \in Range(n.snapshots) :
                        \E x \in Range(n.storage_units_i) :
                            Less(Num(0), n.storage_units_t.inflow[t][x])
        su_spill == IF any_inflow
                    THEN set_rows(out.storage_units_t_spill, sns,
                            LAMBDA t, x :
                              as_series(primal, "storage_p_spill", x, t))
                    ELSE out.storage_units_t_spill
        \* spill.fillna(0)
        su_spill0 == [t \in DOMAIN su_spill |->
                        [x \in DOMAIN su_spill[t] |->
                            IF su_spill[t][x] = None THEN Num(0)
                            ELSE su_spill[t][x]]]
        store_p == set_rows(out.stores_t_p, sns,
                    LAMBDA t, x : as_series(primal, "store_p", x, t))
        store_e == set_rows(out.stores_t_e, sns,
                    LAMBDA t, x : as_series(primal, "store_e", x, t))
        load_p == set_rows(out.loads_t_p, sns,
                    LAMBDA t, l : n.loads_t.p_set[t][l])
        bus_p == set_rows(out.buses_t_p, sns,
                    LAMBDA t, bus :
                      Add(Add(bus_sum(n.generators_i,
                                      LAMBDA g : n.generators[g].bus, bus,
                                      LAMBDA g : Mul(gen_p[t][g],
                                                     n.generators[g].sign)),
                              bus_sum(n.loads_i,
                                      LAMBDA l : n.loads[l].bus, bus,
                                      LAMBDA l : Mul(load_p[t][l],
                                                     n.loads[l].sign))),
                          Add(bus_sum(n.storage_units_i,
                                      LAMBDA x : n.storage_units[x].bus, bus,
                                      LAMBDA x : Mul(su_p[t][x],
                                                     n.storage_units[x].sign)),
                              bus_sum(n.stores_i,
                                      LAMBDA x : n.stores[x].bus, bus,
                                      LAMBDA x : Mul(store_p[t][x],
                                                     n.stores[x].sign)))))
        has(index) == Len(index) > 0
    IN  [out EXCEPT
           !.objective = res.lower_bound,
           !.generators_t_p = IF has(n.generators_i) THEN gen_p ELSE @,
           !.storage_units_t_p = IF has(n.storage_units_i) THEN su_p ELSE @,
           !.storage_units_t_state_of_charge =
                IF has(n.storage_units_i) THEN su_soc ELSE @,
           !.storage_units_t_spill =
                IF has(n.storage_units_i) THEN su_spill0 ELSE @,
           !.stores_t_p = IF has(n.stores_i) THEN store_p ELSE @,
           !.stores_t_e = IF has(n.stores_i) THEN store_e ELSE @,
           !.loads_t_p = IF has(n.loads_i) THEN load_p ELSE @,
           !.buses_t_p = IF has(n.buses_i) THEN bus_p ELSE @]

\* lines 904-922: the passive branches and the links
extract_branches(n, sns, primal, out) ==
    LET p0 == set_rows(out.branches_t_p0, sns,
                LAMBDA t, b : Num(primal[<<"passive_branch_p", b[1], b[2], t>>]))
        p1 == set_rows(out.branches_t_p1, sns, LAMBDA t, b : Neg(p0[t][b]))
        l0 == set_rows(out.links_t_p0, sns,
                LAMBDA t, l : as_series(primal, "link_p", l, t))
        l1 == set_rows(out.links_t_p1, sns,
                LAMBDA t, l : Neg(Mul(l0[t][l], n.links[l].efficiency)))
        bus_p == set_rows(out.buses_t_p, sns,
                LAMBDA t, bus :
                  Sub(Sub(out.buses_t_p[t][bus],
                          bus_sum(n.links_i, LAMBDA l : n.links[l].bus0, bus,
                                  LAMBDA l : l0[t][l])),
                      bus_sum(n.links_i, LAMBDA l : n.links[l].bus1, bus,
                              LAMBDA l : l1[t][l])))
        has_links == Len(n.links_i) > 0
    IN  [out EXCEPT
           !.branches_t_p0 = p0,
           !.branches_t_p1 = p1,
           !.links_t_p0 = IF has_links THEN l0 ELSE @,
           !.links_t_p1 = IF has_links THEN l1 ELSE @,
           !.buses_t_p = IF has_links THEN bus_p ELSE @]

\* list.index(x), counted from 1
RECURSIVE IndexOf(_, _)
IndexOf(seq, x) ==
    IF Head(seq) = x THEN 1 ELSE 1 + IndexOf(Tail(seq), x)

\* spsolve(sn.B[1:, 1:], buses_t.p[pvpqs]): the angle of a non-slack bus
recovered_angle(n, sub, bus, p) ==
    LET pvpqs == n.sub_networks[sub].pvpqs
        i == IndexOf(pvpqs, bus)
    IN  SumNum([j \in 1..Len(pvpqs) |->
                  Mul(n.sub_networks[sub].B_inverse[i][j], p[pvpqs[j]])])

\* the sub-network of a bus
sub_network_of(n, bus) ==
    CHOOSE sub \in Range(n.sub_networks_i) :
        bus \in Range(n.sub_networks[sub].buses_i)

\* a variant that clears the angles of the DC buses before it computes the
\* magnitudes
extract_buses_cleared_first(n, sns, f, sol, out) ==
    LET v_ang ==
            IF f = "angles"
            THEN set_rows(out.buses_t_v_ang, sns,
                    LAMBDA t, bus :
                      as_series(sol.primal, "voltage_angles", bus, t))
            ELSE IF f \in {"ptdf", "cycles", "kirchhoff"}
            THEN set_rows(out.buses_t_v_ang, sns,
                    LAMBDA t, bus :
                      LET sub == sub_network_of(n, bus)
                      IN  IF bus = n.sub_networks[sub].slack_bus THEN Num(0)
                          ELSE recovered_angle(n, sub, bus, out.buses_t_p[t]))
            ELSE out.buses_t_v_ang
        price ==
            IF f = "angles"
            THEN set_rows(out.buses_t_marginal_price, sns,
                    LAMBDA t, bus : Num(sol.dual[<<"power_balance", bus, t>>]))
            ELSE out.buses_t_marginal_price
        v_ang0 == set_rows(v_ang, sns,
                    LAMBDA t, bus :
                      IF n.buses[bus].carrier = "DC" THEN Num(0)
                      ELSE v_ang[t][bus])
        v_mag == set_rows(out.buses_t_v_mag_pu, sns,
                    LAMBDA t, bus :
                      IF n.buses[bus].carrier = "AC" THEN Num(1)
                      ELSE IF n.buses[bus].carrier = "DC"
                      THEN Add(Num(1), v_ang0[t][bus])
                      ELSE out.buses_t_v_mag_pu[t][bus])
    IN  [out EXCEPT !.buses_t_v_ang = v_ang0,
                    !.buses_t_marginal_price = price,
                    !.buses_t_v_mag_pu = v_mag]

\* lines 925-947: angles, marginal prices and voltage magnitudes
extract_buses(n, sns, f, sol, out) ==
    LET v_ang ==
            IF f = "angles"
            THEN set_rows(out.buses_t_v_ang, sns,
                    LAMBDA t, bus :
                      as_series(sol.primal, "voltage_angles", bus, t))
            ELSE IF f \in {"ptdf", "cycles", "kirchhoff"}
            THEN set_rows(out.buses_t_v_ang, sns,
                    LAMBDA t, bus :
                      LET sub == sub_network_of(n, bus)
                      IN  IF bus = n.sub_networks[sub].slack_bus THEN Num(0)
                          ELSE recovered_angle(n, sub, bus, out.buses_t_p[t]))
            ELSE out.buses_t_v_ang
        price ==
            IF f = "angles"
            THEN set_rows(out.buses_t_marginal_price, sns,
                    LAMBDA t, bus : Num(sol.dual[<<"power_balance", bus, t>>]))
            ELSE out.buses_t_marginal_price
        v_mag == set_rows(out.buses_t_v_mag_pu, sns,
                    LAMBDA t, bus :
                      IF n.buses[bus].carrier = "AC" THEN Num(1)
                      ELSE IF n.buses[bus].carrier = "DC"
                      THEN Add(Num(1), v_ang[t][bus])
                      ELSE out.buses_t_v_mag_pu[t][bus])
        v_ang0 == set_rows(v_ang, sns,
                    LAMBDA t, bus :
                      IF n.buses[bus].carrier = "DC" THEN Num(0)
                      ELSE v_ang[t][bus])
    IN  [out EXCEPT !.buses_t_v_ang = v_ang0,
                    !.buses_t_marginal_price = price,
                    !.buses_t_v_mag_pu = v_mag]

\* lines 949-974: the optimal capacities
extract_nominal(n, primal, out) ==
    [out EXCEPT
       !.generators_p_nom_opt =
          [g \in DOMAIN @ |->
              IF n.generators[g].p_nom_extendable
              THEN Num(primal[<<"generator_p_nom", g>>])
              ELSE n.generators[g].p_nom],
       !.storage_units_p_nom_opt =
          [x \in DOMAIN @ |->
              IF n.storage_units[x].p_nom_extendable
              THEN Num(primal[<<"storage_p_nom", x>>])
              ELSE n.storage_units[x].p_nom],
       !.stores_e_nom_opt =
          [x \in DOMAIN @ |->
              IF n.stores[x].e_nom_extendable
              THEN Num(primal[<<"store_e_nom", x>>])
              ELSE n.stores[x].e_nom],
       !.branches_s_nom_opt =
          [b \in DOMAIN @ |->
              IF n.passive_branches[b].s_nom_extendable
              THEN Num(primal[<<"passive_branch_s_nom", b[1], b[2]>>])
              ELSE n.passive_branches[b].s_nom],
       !.links_p_nom_opt =
          [l \in DOMAIN @ |->
              IF n.links[l].p_nom_extendable
              THEN Num(primal[<<"link_p_nom", l>>])
              ELSE n.links[l].p_nom]]

\* model.passive_branch_p of a model without that component raises
\* AttributeError at line 905, after the one-port series were written
extract_optimisation_results(n, sns, f, m, sol, res, out) ==
    LET one_ports == extract_one_ports(n, sns, sol.primal, res, out)
    IN  IF "passive_branch_p" \notin m.components
        THEN [output |-> one_ports,
              error |-> <<"AttributeError", "passive_branch_p">>]
        ELSE [output |->
                extract_nominal(n, sol.primal,
                  extract_buses(n, sns, f, sol,
                    extract_branches(n, sns, sol.primal, one_ports))),
              error |-> None]

-----------------------------------------------------------------------------
(* network_lopf: after the solver returned *)

\* a variant that extracts on every warning
writes_output_on_any_warning(status, termination) ==
    \/ status = "ok" /\ termination = "optimal"
    \/ status = "warning"

\* status == "ok" and termination_condition == "optimal", or
\* status == "warning" and termination_condition == "other"
writes_output(status, termination) ==
    \/ status = "ok" /\ termination = "optimal"
    \/ status = "warning" /\ termination = "other"

\* lines 1083-1093
Status ==
    /\ pc = "status"
    /\ IF writes_output(results.status, results.termination)
       THEN LET r == extract_optimisation_results(network, snapshots,
                        formulation, model, solution, results, output)
                warned == IF results.status = "warning"
                          THEN << <<"WARNING! Optimization might be sub-optimal">> >>
                          ELSE <<>>
            IN  /\ output' = r.output
                /\ pc' = IF r.error = None THEN "done" ELSE "raised"
                /\ log' = log \o warned \o << <<"extract">> >> \o
                          (IF r.error = None THEN <<>> ELSE <<r.error>>)
       ELSE /\ output' = output
            /\ pc' = "done"
            /\ log' = Append(log, <<"Optimisation failed", results.status,
                                    results.termination>>)
    /\ UNCHANGED <<network, sub_network_PTDF, snapshots, formulation,
                   ptdf_tolerance, extra_functionality, model, p_balance,
                   results, solution>>

Next == Build \/ Solve \/ Status

Spec == Init /\ [][Next]_vars

-----------------------------------------------------------------------------
(* The calls on the ring network: one ring of three AC buses with two     *)
(* generators and one load, and a link to a DC bus with a load             *)

InitFlow ==
    /\ network \in {RingNetwork, TwoBusNetwork}
    /\ sub_network_PTDF = NoPTDF(network)
    /\ snapshots \in {Window(t, t) : t \in 1..NSnap} \cup {Window(1, 2)}
    /\ formulation \in Formulations
    \* only the ptdf formulation reads ptdf_tolerance
    /\ ptdf_tolerance \in IF formulation = "ptdf" THEN Tolerances
                           ELSE {Num(0)}
    /\ extra_functionality = FALSE
    /\ pc = "model"
    /\ model = None
    /\ p_balance = None
    /\ results = None
    /\ solution = None
    /\ output = PriorOutput(network, Num(0))
    /\ log = <<>>

SpecFlow == InitFlow /\ [][Next]_vars

-----------------------------------------------------------------------------
(* The calls on a network whose sub-networks may hold the PTDF that an     *)
(* earlier calculation left                                                *)

\* sub_network.PTDF as calculate_PTDF leaves it
ComputedPTDF(n) ==
    [sub \in Range(n.sub_networks_i) |->
        IF Len(n.sub_networks[sub].branches_i) > 0
        THEN calculate_PTDF(n, sub) ELSE None]

InitFrame ==
    /\ network \in {RingNetwork, TwoBusNetwork}
    /\ sub_network_PTDF \in {NoPTDF(network), ComputedPTDF(network)}
    /\ snapshots \in {Window(1, 1), Window(1, 2)}
    /\ formulation \in Formulations
    /\ ptdf_tolerance \in Tolerances
    /\ extra_functionality \in BOOLEAN
    /\ pc = "model"
    /\ model = None
    /\ p_balance = None
    /\ results = None
    /\ solution = None
    /\ output = PriorOutput(network, Num(0))
    /\ log = <<>>

SpecFrame == InitFrame /\ [][Next]_vars

-----------------------------------------------------------------------------
(* The calls on the full network whose result series hold numbers, or, in  *)
(* the spill of the storage units, missing values                          *)

\* the result fields with every spill missing (NaN)
MissingSpill(n, v) ==
    [PriorOutput(n, v) EXCEPT
        !.storage_units_t_spill =
            [t \in Range(n.snapshots) |->
                [x \in Range(n.storage_units_i) |-> None]]]

InitResults ==
    /\ network = FullNetwork(None)
    /\ sub_network_PTDF = NoPTDF(network)
    /\ snapshots \in Windows
    /\ formulation \in Formulations
    /\ ptdf_tolerance = Num(0)
    /\ extra_functionality \in BOOLEAN
    /\ pc = "model"
    /\ model = None
    /\ p_balance = None
    /\ results = None
    /\ solution = None
    /\ output \in {PriorOutput(network, Num(7)), MissingSpill(network, Num(7))}
    /\ log = <<>>

SpecResults == InitResults /\ [][Next]_vars

-----------------------------------------------------------------------------
(* Properties of a call *)

\* a log entry that records an exception
is_error(entry) == Len(entry) = 2 /\ entry[1] \in {"AttributeError", "KeyError"}

\* the step ran to its end without an exception
completed(step) ==
    \E i \in 1..Len(log) :
        log[i] = <<step>> /\ (i < Len(log) => ~is_error(log[i + 1]))

\* the steps of the build in the order of network_lopf
BaseSteps ==
    << <<"model">>, <<"generators">>, <<"storage">>, <<"stores">>,
       <<"branch_extension">>, <<"links">>, <<"nodal_balances">>,
       <<"passive_branch_flows">>, <<"passive_branch_constraints">>,
       <<"balance">>, <<"co2">>, <<"objective">> >>

\* C1: when the formulation is none of angles, ptdf, cycles and kirchhoff,
\* the call ends before anything is built: no variable and no constraint is
\* ever declared on the model and the solver is never called.
C1_UnsupportedFormulationRejectedBeforeBuild ==
    formulation \notin Formulations =>
        /\ pc # "model" =>
              DOMAIN model.variables = {} /\ DOMAIN model.constraints = {}
        /\ <<"solve">> \notin Range(log)

\* C2: after the solver returned, extraction runs exactly when (status,
\* termination) is (ok, optimal) or (warning, other); for every other pair
\* extraction is skipped, a failure carrying status and termination is
\* reported, and every result series and every *_nom_opt field of the
\* network keeps its value.
C2_ExtractionIffAcceptedStatus ==
    [][pc = "status" =>
          IF <<results.status, results.termination>> \in
                {<<"ok", "optimal">>, <<"warning", "other">>}
          THEN /\ <<"extract">> \in Range(log')
               /\ output'.objective = results.lower_bound
          ELSE /\ <<"extract">> \notin Range(log')
               /\ log' = Append(log, <<"Optimisation failed", results.status,
                                       results.termination>>)
               /\ output' = output]_vars

\* a failure of the solver was reported and left the earlier results alone
C2_Witness ==
    /\ pc = "done"
    /\ results.status = "warning" /\ results.termination = "optimal"
    /\ log[Len(log)] = <<"Optimisation failed", "warning", "optimal">>
    /\ output = PriorOutput(network, Num(7))
    /\ Len(network.storage_units_i) > 0

\* C3: under each of the four formulations, with or without a CO2 limit, no
\* step of the build reads a model variable that an earlier step has not
\* declared: no step raises, and every constraint, balance expression and
\* objective of the model so far refers to declared variables only.
C3_VariablesDeclaredBeforeUse ==
    (formulation \in Formulations /\ pc # "model") =>
        /\ \A i \in 1..Len(log) : ~is_error(log[i])
        /\ \A k \in DOMAIN model.constraints :
              variables_of(model.constraints[k]) \subseteq
                  DOMAIN model.variables
        /\ "objective" \in model.components =>
              variables_of(model.objective) \subseteq DOMAIN model.variables
        /\ pc \in {"passive_branch_flows", "passive_branch_constraints",
                   "balance", "co2", "objective", "extra_functionality"} =>
              \A k \in DOMAIN p_balance :
                  variables_of(p_balance[k]) \subseteq DOMAIN model.variables

\* the whole build ran, cycles formulation, CO2 limit and passive branches
C3_Witness ==
    /\ pc = "extra_functionality"
    /\ formulation = "cycles"
    /\ network.co2_limit # None
    /\ Len(network.passive_branches_i) > 0
    /\ completed("objective")
    /\ <<"co2_constraint">> \in DOMAIN model.constraints

\* C4: a given extra_functionality is called exactly once, after every step
\* of the build up to and including the objective and before the solver;
\* when it is None nothing is called between the objective and the solver.
C4_ExtraFunctionalityOnceBeforeSolve ==
    LET calls == {i \in 1..Len(log) : log[i] = <<"extra_functionality">>}
    IN  /\ Cardinality(calls) <= 1
        /\ ~extra_functionality => calls = {}
        /\ \A i \in calls : SubSeq(log, 1, i - 1) = BaseSteps
        /\ \A i \in 1..Len(log) :
              log[i] = <<"solve">> =>
                 SubSeq(log, 1, i - 1) =
                    BaseSteps \o (IF extra_functionality
                                  THEN << <<"extra_functionality">> >>
                                  ELSE <<>>)

\* the callback was called and the solver ran after it
C4_Witness ==
    /\ extra_functionality
    /\ pc = "status"
    /\ Len(log) = 14
    /\ log[13] = <<"extra_functionality">>
    /\ log[14] = <<"solve">>

\* the tolerance drops no non-zero entry of the PTDF of any sub-network
keeps_PTDF(n, tolerance) ==
    \A sub \in Range(n.sub_networks_i) :
        Len(n.sub_networks[sub].branches_i) > 0 =>
            kill_small(calculate_PTDF(n, sub), tolerance) =
                calculate_PTDF(n, sub)

\* the flows the angles formulation admits on the network of the call
angles_flows(t) ==
    feasible_flows(network,
                   lopf_model(network, snapshots, "angles", ptdf_tolerance,
                              NoPTDF(network)), t)

\* C5 as stated: on the same network and snapshots, whatever the formulation,
\* the built model admits at every snapshot exactly the passive branch flows
\* that the angles formulation admits, so all four formulations agree.
C5_SameFeasibleFlows ==
    pc = "solve" =>
        \A t \in Range(snapshots) :
            feasible_flows(network, model, t) = angles_flows(t)

\* C5, amended: the four formulations admit the same passive branch flows at
\* every snapshot provided that, under ptdf, ptdf_tolerance drops no non-zero
\* entry of the PTDF matrix.
C5_SameFeasibleFlowsWithinTolerance ==
    (pc = "solve" /\ (formulation = "ptdf" =>
                         keeps_PTDF(network, ptdf_tolerance))) =>
        \A t \in Range(snapshots) :
            feasible_flows(network, model, t) = angles_flows(t)

\* a ptdf model that admits several flows, with no entry dropped
C5_Witness ==
    /\ pc = "solve"
    /\ formulation = "ptdf"
    /\ keeps_PTDF(network, ptdf_tolerance)
    /\ snapshots = <<1, 2>>
    /\ Cardinality(feasible_flows(network, model, 2)) >= 3

\* the snapshot before position i of the window, the last one before the
\* first
preceding(i) == snapshots[IF i = 1 THEN Len(snapshots) ELSE i - 1]

\* C6: in the state-of-charge equation of storage unit su at position i of
\* the window, the previous state of charge is the constant
\* state_of_charge_initial exactly when i is the first position and the unit
\* is not cyclic; otherwise it is the state_of_charge variable of the
\* preceding snapshot of the window, which for the first position is the
\* last snapshot of the window.
C6_PreviousStateOfCharge ==
    pc \in {"stores", "solve"} =>
        \A su \in Range(network.storage_units_i) :
          \A i \in 1..Len(snapshots) :
            LET t == snapshots[i]
                u == network.storage_units[su]
                c == model.constraints[<<"state_of_charge_constraint", su, t>>]
                w == network.snapshot_weightings[t]
                d == Pow(Sub(Num(1), u.standing_loss), w)
                set == network.storage_units_t.state_of_charge_set[t][su]
                rest == Sub(IF set = None THEN Num(0) ELSE set,
                            Mul(network.storage_units_t.inflow[t][su], Num(w)))
                previous == {c.variables[j] : j \in
                               {j \in 1..Len(c.variables) :
                                  /\ c.variables[j][2][1] = "state_of_charge"
                                  /\ Less(Num(0), c.variables[j][1])}}
            IN  IF i = 1 /\ ~u.cyclic_state_of_charge
                THEN /\ previous = {}
                     /\ c.constant =
                           Sub(rest, Mul(d, u.state_of_charge_initial))
                ELSE /\ previous =
                           {<<d, <<"state_of_charge", su, preceding(i)>>>>}
                     /\ c.constant = rest

\* a window that starts after the first snapshot of the network, with a
\* cyclic and a non-cyclic unit
C6_Witness ==
    /\ pc = "stores"
    /\ snapshots = <<2, 3>>
    /\ \E su \in Range(network.storage_units_i) :
          network.storage_units[su].cyclic_state_of_charge
    /\ \E su \in Range(network.storage_units_i) :
          ~network.storage_units[su].cyclic_state_of_charge
    /\ <<"state_of_charge_constraint", "S2", 2>> \in DOMAIN model.constraints

\* the equality c is the equation "terms = constant", or its negative
same_equation(c, terms, constant) ==
    /\ c.sense = "=="
    /\ \E sign \in {Num(1), Num(-1)} :
          /\ c.constant = Mul(sign, constant)
          /\ \A v \in variables_of(c) \cup {terms[j][2] : j \in 1..Len(terms)} :
                coefficient(c.variables, v) =
                    Mul(sign, coefficient(terms, v))

\* C7: for every store s and position i of the window the model holds the
\* equality e[s,t] = (1 - standing_loss)^w[t] * e_prev - w[t] * store_p[s,t];
\* e_prev is the constant e_initial exactly when i is the first position and
\* e_cyclic is false, and otherwise store_e of the preceding snapshot of the
\* window, the last one for the first position.
C7_StoreEnergyRecurrence ==
    pc \in {"branch_extension", "solve"} =>
        \A st \in Range(network.stores_i) :
          \A i \in 1..Len(snapshots) :
            LET t == snapshots[i]
                u == network.stores[st]
                w == network.snapshot_weightings[t]
                d == Pow(Sub(Num(1), u.standing_loss), w)
                initial == i = 1 /\ ~u.e_cyclic
                terms == <<Term(Num(1), <<"store_e", st, t>>),
                           Term(Num(w), <<"store_p", st, t>>)>> \o
                         (IF initial THEN <<>>
                          ELSE <<Term(Neg(d),
                                      <<"store_e", st, preceding(i)>>)>>)
            IN  /\ <<"store_constraint", st, t>> \in DOMAIN model.constraints
                /\ same_equation(model.constraints[<<"store_constraint", st, t>>],
                                 terms,
                                 IF initial THEN Mul(d, u.e_initial)
                                 ELSE Num(0))

\* three snapshots, a cyclic and a non-cyclic store
C7_Witness ==
    /\ pc = "branch_extension"
    /\ snapshots = <<1, 2, 3>>
    /\ \E st \in Range(network.stores_i) : network.stores[st].e_cyclic
    /\ \E st \in Range(network.stores_i) : ~network.stores[st].e_cyclic
    /\ <<"store_constraint", "E1", 1>> \in DOMAIN model.constraints

\* the constraints of the model declared under a name
declared(name) == {k \in DOMAIN model.constraints : k[1] = name}

\* the passive branch variables of snapshot t
branch_flows(t) ==
    {<<"passive_branch_p", b[1], b[2], t>> :
        b \in Range(network.passive_branches_i)}

\* the coefficient of flow variable v in the balance of bus: -1 at bus0 of
\* its branch, +1 at bus1
branch_term(v, bus) ==
    LET b == network.passive_branches[<<v[2], v[3]>>]
    IN  Sub(IF b.bus1 = bus THEN Num(1) ELSE Num(0),
            IF b.bus0 = bus THEN Num(1) ELSE Num(0))

\* C8: a build declares exactly one family of balances. Under angles and
\* kirchhoff: for every bus and snapshot the equality "balance of the bus,
\* with -p at bus0 and +p at bus1 of every passive branch, = 0", and no
\* sub-network balance. Under ptdf and cycles: for every sub-network and
\* snapshot the equality "sum of the balances of its buses = 0" without
\* passive branch terms, and no balance per bus.
C8_ExactlyOneBalanceFamily ==
    (formulation \in Formulations /\ pc \in {"co2", "solve"}) =>
        LET nodal == declared("power_balance")
            sub_network == declared("sub_network_balance_constraint")
            balance == define_nodal_balances(network, snapshots)
            W == Range(snapshots)
        IN  IF formulation \in {"angles", "kirchhoff"}
            THEN /\ sub_network = {}
                 /\ nodal = {<<"power_balance", bus, t>> :
                               bus \in Range(network.buses_i), t \in W}
                 /\ \A k \in nodal :
                      LET c == model.constraints[k]
                          e == balance[<<k[2], k[3]>>]
                      IN  /\ c.sense = "=="
                          /\ c.constant = Neg(e.constant)
                          /\ \A v \in variables_of(c) \cup variables_of(e)
                                        \cup branch_flows(k[3]) :
                                coefficient(c.variables, v) =
                                   Add(coefficient(e.variables, v),
                                       IF v \in branch_flows(k[3])
                                       THEN branch_term(v, k[2])
                                       ELSE Num(0))
            ELSE /\ nodal = {}
                 /\ sub_network =
                       {<<"sub_network_balance_constraint", sub, t>> :
                          sub \in Range(network.sub_networks_i), t \in W}
                 /\ \A k \in sub_network :
                      LET c == model.constraints[k]
                          buses == network.sub_networks[k[2]].buses_i
                          es == MapSeq(buses, LAMBDA bus : balance[<<bus, k[3]>>])
                      IN  /\ c.sense = "=="
                          /\ variables_of(c) \cap branch_flows(k[3]) = {}
                          /\ c.constant =
                                Neg(SumNum(MapSeq(es, LAMBDA e : e.constant)))
                          /\ \A v \in variables_of(c) \cup
                                      UNION {variables_of(es[j]) :
                                               j \in 1..Len(es)} :
                                coefficient(c.variables, v) =
                                   SumNum(MapSeq(es, LAMBDA e :
                                            coefficient(e.variables, v)))

\* a ptdf build on a network with passive branches, balanced per sub-network
C8_Witness ==
    /\ pc = "co2"
    /\ formulation = "ptdf"
    /\ Len(network.passive_branches_i) > 0
    /\ Len(snapshots) = 2
    /\ <<"sub_network_balance_constraint", "0", snapshots[2]>> \in
          DOMAIN model.constraints

\* C9: under every formulation, for every passive branch and snapshot the
\* model holds exactly one flow_upper and one flow_lower constraint: for a
\* fixed branch p <= s_nom and p >= -s_nom, for an extendable branch
\* p - passive_branch_s_nom <= 0 and p + passive_branch_s_nom >= 0.
C9_FlowMagnitudeBounds ==
    (formulation \in Formulations /\ pc \in {"balance", "solve"}) =>
        LET keys(name) == {<<name, b[1], b[2], t>> :
                             b \in Range(network.passive_branches_i),
                             t \in Range(snapshots)}
            p(k) == <<"passive_branch_p", k[2], k[3], k[4]>>
            s(k) == <<"passive_branch_s_nom", k[2], k[3]>>
            branch(k) == network.passive_branches[<<k[2], k[3]>>]
            limits(c, k, sense, capacity, constant) ==
                /\ c.sense = sense
                /\ coefficient(c.variables, p(k)) = Num(1)
                /\ c.constant = constant
                /\ IF branch(k).s_nom_extendable
                   THEN /\ variables_of(c) = {p(k), s(k)}
                        /\ coefficient(c.variables, s(k)) = capacity
                   ELSE variables_of(c) = {p(k)}
        IN  /\ declared("flow_upper") = keys("flow_upper")
            /\ declared("flow_lower") = keys("flow_lower")
            /\ \A k \in keys("flow_upper") :
                  limits(model.constraints[k], k, "<=", Num(-1),
                         IF branch(k).s_nom_extendable THEN Num(0)
                         ELSE branch(k).s_nom)
            /\ \A k \in keys("flow_lower") :
                  limits(model.constraints[k], k, ">=", Num(1),
                         IF branch(k).s_nom_extendable THEN Num(0)
                         ELSE Neg(branch(k).s_nom))

\* a kirchhoff build with a fixed and an extendable passive branch
C9_Witness ==
    /\ pc = "balance"
    /\ formulation = "kirchhoff"
    /\ \E b \in Range(network.passive_branches_i) :
          network.passive_branches[b].s_nom_extendable
    /\ \E b \in Range(network.passive_branches_i) :
          ~network.passive_branches[b].s_nom_extendable
    /\ <<"flow_lower", "Line", "L2", snapshots[1]>> \in DOMAIN model.constraints

\* the members of a finite set in a sequence
RECURSIVE listed(_)
listed(S) ==
    IF S = {} THEN <<>>
    ELSE LET x == CHOOSE x \in S : TRUE IN <<x>> \o listed(S \ {x})

\* C10: under every formulation and at every snapshot, the sum over all
\* buses of the nodal balance expressions, passive branch terms included,
\* is the sum of the left-hand sides of the balance constraints of the
\* model, whose right-hand sides are zero: the passive branch terms cancel,
\* and every assignment that satisfies the balance constraints makes the sum
\* zero.
C10_NodalBalancesSumToZero ==
    (formulation \in Formulations /\ pc = "co2") =>
        \A t \in Range(snapshots) :
          LET full == IF balance_family(formulation) = "nodal" THEN p_balance
                      ELSE balance_with_branches(network, p_balance)
              es == MapSeq(network.buses_i, LAMBDA bus : full[<<bus, t>>])
              cs == MapSeq(listed({k \in declared("power_balance") \cup
                                     declared("sub_network_balance_constraint") :
                                     k[3] = t}),
                           LAMBDA k : model.constraints[k])
              vars_ == UNION {variables_of(es[j]) : j \in 1..Len(es)} \cup
                       UNION {variables_of(cs[j]) : j \in 1..Len(cs)}
          IN  /\ \A j \in 1..Len(cs) : cs[j].sense = "=="
              /\ SumNum(MapSeq(cs, LAMBDA c : c.constant)) =
                    Neg(SumNum(MapSeq(es, LAMBDA e : e.constant)))
              /\ \A v \in vars_ :
                    SumNum(MapSeq(cs, LAMBDA c : coefficient(c.variables, v)))
                      = SumNum(MapSeq(es, LAMBDA e :
                                        coefficient(e.variables, v)))
              /\ \A v \in branch_flows(t) :
                    SumNum(MapSeq(es, LAMBDA e : coefficient(e.variables, v)))
                      = Num(0)

\* balances per sub-network on a network with storage, links and branches
C10_Witness ==
    /\ pc = "co2"
    /\ formulation = "cycles"
    /\ Len(network.storage_units_i) > 0
    /\ Len(network.passive_branches_i) > 0
    /\ Len(snapshots) = 3
    /\ Cardinality(declared("sub_network_balance_constraint")) >= 6

\* the assignments of all variables that satisfy the bounds and the
\* constraints of the built model
points_of_model == solutions(model.variables, model.constraints, <<>>)

\* C11: on the two-bus scenario S1 under angles the constraints admit one
\* assignment only: at every snapshot of the window the generator produces
\* 100, the line carries 100 from A to B, the angle of A is 0 and the angle
\* of B is -10; the objective is then 1000 times the weight of the
\* snapshot, summed over the window.
C11_TwoBusScenarioForced ==
    (network = TwoBusNetwork /\ formulation = "angles" /\ pc = "solve") =>
        /\ Cardinality(points_of_model) = 1
        /\ \A val \in points_of_model :
              /\ \A t \in Range(snapshots) :
                    /\ val[<<"generator_p", "G", t>>] = Num(100)
                    /\ val[<<"passive_branch_p", "Line", "L", t>>] = Num(100)
                    /\ val[<<"voltage_angles", "A", t>>] = Num(0)
                    /\ val[<<"voltage_angles", "B", t>>] = Num(-10)
              /\ evaluate(model.objective, val) =
                    SumNum(MapSeq(snapshots, LAMBDA t :
                             Num(1000 * network.snapshot_weightings[t])))
              /\ Len(snapshots) = 1 =>
                    evaluate(model.objective, val) =
                       Num(1000 * network.snapshot_weightings[snapshots[1]])

\* the scenario built under angles for the one snapshot of weight 2, with
\* its point
C11_Witness ==
    /\ network = TwoBusNetwork
    /\ formulation = "angles"
    /\ pc = "solve"
    /\ snapshots = <<2>>
    /\ \E val \in points_of_model :
          /\ val[<<"voltage_angles", "B", 2>>] = Num(-10)
          /\ evaluate(model.objective, val) = Num(2000)

\* the network holds a model
holds_model == DOMAIN model # {}

\* a declarator of the build raised: its log entry is followed by the
\* exception
build_failed ==
    \E i \in 2..Len(log) :
        is_error(log[i]) /\ log[i - 1] \in Range(BaseSteps)

\* the call ended at the exception: it is the last entry of the log and
\* the solver was not called
propagated ==
    /\ pc = "raised"
    /\ is_error(log[Len(log)])
    /\ \A i \in 1..Len(log) : log[i] # <<"solve">>
    /\ results = None

\* C12: when a declarator raises during the build, no later declarator runs,
\* the solver is not called, and the network does not hold the partially
\* built model after the failed call.
C12_FailedBuildDiscardsModel ==
    build_failed => (propagated /\ ~holds_model)

\* the steps of the build, from the new model to the objective
building == pc \in {BaseSteps[i][1] : i \in 1..Len(BaseSteps)}

thresholded(before, after, tolerance) ==
    /\ Len(after) = Len(before)
    /\ \A i \in 1..Len(before) :
          /\ Len(after[i]) = Len(before[i])
          /\ \A j \in 1..Len(before[i]) :
                after[i][j] =
                    IF /\ Less(before[i][j], tolerance)
                       /\ Less(Neg(before[i][j]), tolerance)
                    THEN Num(0) ELSE before[i][j]

extracted == pc = "done" /\ log[Len(log)] = <<"extract">>

\* the marginal price of every bus at every snapshot of the window is the
\* dual value of its power_balance constraint
prices_are_duals ==
    \A t \in Range(snapshots) :
      \A bus \in Range(network.buses_i) :
        output.buses_t_marginal_price[t][bus] =
            Num(solution.dual[<<"power_balance", bus, t>>])

\* C14: after a call that extracted the results, under angles and under
\* kirchhoff, the formulations with a balance constraint per bus and
\* snapshot, the marginal price of every bus at every snapshot of the window
\* is the dual value of power_balance[bus, t].
C14_MarginalPriceIsDual ==
    (extracted /\ formulation \in {"angles", "kirchhoff"}) => prices_are_duals

\* the spill variables that occur in the state-of-charge equation of
\* storage unit su at snapshot t
spill_terms(su, t) ==
    {v \in variables_of(
              model.constraints[<<"state_of_charge_constraint", su, t>>]) :
        v[1] = "storage_p_spill"}

\* the equation of (su, t) holds the spill variable of (su, t), if there is
\* one, and no other
own_spill_only(su, t) ==
    spill_terms(su, t) =
        {<<"storage_p_spill", su, t>>} \cap DOMAIN model.variables

\* the spill variable of (su, t) is weighted by the hours of snapshot t
own_weight(su, t) ==
    <<"storage_p_spill", su, t>> \in DOMAIN model.variables =>
        coefficient(
            model.constraints[<<"state_of_charge_constraint", su, t>>].variables,
            <<"storage_p_spill", su, t>>) =
          Num(-network.snapshot_weightings[t])

\* C15: for every storage unit su and snapshot t of the window with a spill
\* variable, the state-of-charge equation of (su, t) holds the term
\* -snapshot_weightings[t] * storage_p_spill[su, t], with the weight of
\* snapshot t itself; the equation of a pair without spill variable holds no
\* spill term.
C15_SpillWeightedByOwnSnapshot ==
    pc \in {"stores", "solve"} =>
        \A su \in Range(network.storage_units_i) :
          \A t \in Range(snapshots) :
            own_spill_only(su, t) /\ own_weight(su, t)

\* the variables of the model declared under a name
declared_variables(name) == {k \in DOMAIN model.variables : k[1] = name}

\* C16: the spill variables of the model are exactly those of the pairs
\* (su, t) with t in the window and inflow[t, su] > 0; each is non-negative
\* with lower bound 0 and upper bound inflow[t, su].
C16_SpillVariablesWhereInflow ==
    pc = "stores" =>
        /\ declared_variables("storage_p_spill") =
              {<<"storage_p_spill", su, t>> :
                  <<su, t>> \in
                     {x \in Range(network.storage_units_i) \X Range(snapshots) :
                        Less(Num(0),
                             network.storage_units_t.inflow[x[2]][x[1]])}}
        /\ \A k \in declared_variables("storage_p_spill") :
              /\ model.variables[k].domain = "NonNegativeReals"
              /\ model.variables[k].lb = Num(0)
              /\ model.variables[k].ub =
                    network.storage_units_t.inflow[k[3]][k[2]]

\* a window with a snapshot with inflow and a snapshot without, for a unit
\* with a spill variable
C16_Witness ==
    /\ pc = "stores"
    /\ snapshots = <<1, 2>>
    /\ <<"storage_p_spill", "S1", 1>> \in DOMAIN model.variables
    /\ <<"storage_p_spill", "S1", 2>> \notin DOMAIN model.variables
    /\ network.storage_units_t.inflow[2]["S1"] = Num(0)

\* C17: in the state-of-charge equation of storage unit su at position i of
\* the window, with t the snapshot: when state_of_charge_set[t, su] is
\* given, the equation holds that constant and no current term
\* -state_of_charge[su, t], and the model holds the equality
\* state_of_charge[su, t] = state_of_charge_set[t, su]; when it is missing,
\* the equation holds the term -state_of_charge[su, t] and the model holds
\* no such equality. In both cases the equation of the following position
\* (the first one after the last, for a cyclic unit) holds the variable
\* state_of_charge[su, t].
C17_StateOfChargeSet ==
    pc = "stores" =>
        \A su \in Range(network.storage_units_i) :
          \A i \in 1..Len(snapshots) :
            LET t == snapshots[i]
                u == network.storage_units[su]
                c == model.constraints[<<"state_of_charge_constraint", su, t>>]
                w == network.snapshot_weightings[t]
                d == Pow(Sub(Num(1), u.standing_loss), w)
                set == network.storage_units_t.state_of_charge_set[t][su]
                initial == i = 1 /\ ~u.cyclic_state_of_charge
                own == <<"state_of_charge", su, t>>
                fixed == <<"state_of_charge_constraint_fixed", su, t>>
                \* what the previous state contributes
                start == IF initial
                         THEN Neg(Mul(d, u.state_of_charge_initial))
                         ELSE Num(0)
                previous(v) == IF ~initial /\
                                  v = <<"state_of_charge", su, preceding(i)>>
                               THEN d ELSE Num(0)
                inflow == Mul(network.storage_units_t.inflow[t][su], Num(w))
            IN  /\ IF set = None
                   THEN /\ coefficient(c.variables, own) =
                              Add(previous(own), Num(-1))
                        /\ c.constant = Sub(start, inflow)
                        /\ fixed \notin DOMAIN model.constraints
                   ELSE /\ coefficient(c.variables, own) = previous(own)
                        /\ c.constant = Sub(Add(start, set), inflow)
                        /\ fixed \in DOMAIN model.constraints
                        /\ same_equation(model.constraints[fixed],
                                         <<Term(Num(1), own)>>, set)
                /\ (i < Len(snapshots) \/ u.cyclic_state_of_charge) =>
                      own \in variables_of(model.constraints[
                                  <<"state_of_charge_constraint", su,
                                    snapshots[(i % Len(snapshots)) + 1]>>])

\* a window in which a unit has its state of charge set at the first
\* snapshot and missing at the second
C17_Witness ==
    /\ pc = "stores"
    /\ snapshots = <<2, 3>>
    /\ "S1" \in Range(network.storage_units_i)
    /\ network.storage_units_t.state_of_charge_set[2]["S1"] = Num(1)
    /\ network.storage_units_t.state_of_charge_set[3]["S1"] = None
    /\ <<"state_of_charge_constraint_fixed", "S1", 2>> \in
          DOMAIN model.constraints
    /\ <<"state_of_charge", "S1", 2>> \in
          variables_of(model.constraints[
                          <<"state_of_charge_constraint", "S1", 3>>])

\* the coefficient C18 gives variable v in the balance of bus at snapshot t
injection(v, bus, t) ==
    LET at(table) == v[3] = t /\ table[v[2]].bus = bus
    IN  IF v[1] = "generator_p"
        THEN IF at(network.generators)
             THEN network.generators[v[2]].sign ELSE Num(0)
        ELSE IF v[1] = "storage_p_dispatch"
        THEN IF at(network.storage_units)
             THEN network.storage_units[v[2]].sign ELSE Num(0)
        ELSE IF v[1] = "storage_p_store"
        THEN IF at(network.storage_units)
             THEN Neg(network.storage_units[v[2]].sign) ELSE Num(0)
        ELSE IF v[1] = "store_p"
        THEN IF at(network.stores)
             THEN network.stores[v[2]].sign ELSE Num(0)
        ELSE IF v[1] = "link_p"
        THEN IF v[3] = t
             THEN Add(IF network.links[v[2]].bus0 = bus THEN Num(-1)
                      ELSE Num(0),
                      IF network.links[v[2]].bus1 = bus
                      THEN network.links[v[2]].efficiency ELSE Num(0))
             ELSE Num(0)
        ELSE Num(0)

\* C18: after define_nodal_balances the balance of every bus at every
\* snapshot of the window holds, for the elements at that bus and that
\* snapshot: sign * generator_p, sign * storage_p_dispatch and
\* -sign * storage_p_store, sign * store_p, -link_p of the links that leave
\* the bus and efficiency * link_p of the links that arrive, and the
\* constant sum of sign * p_set of the loads; it holds no passive branch
\* term and no term of an element at another bus or of another snapshot.
C18_NodalBalanceTerms ==
    pc = "passive_branch_flows" =>
        \A bus \in Range(network.buses_i) :
          \A t \in Range(snapshots) :
            LET e == p_balance[<<bus, t>>]
            IN  /\ \A v \in DOMAIN model.variables \cup variables_of(e) :
                      coefficient(e.variables, v) = injection(v, bus, t)
                /\ \A j \in 1..Len(e.variables) :
                      e.variables[j][1] # Num(0)
                /\ e.constant =
                      SumNum(MapSeq(network.loads_i, LAMBDA load :
                               IF network.loads[load].bus = bus
                               THEN Mul(network.loads[load].sign,
                                        network.loads_t.p_set[t][load])
                               ELSE Num(0)))

\* the balances of a network with generators, loads, storage units, stores
\* and links, at a bus where a link arrives
C18_Witness ==
    /\ pc = "passive_branch_flows"
    /\ snapshots = <<1, 2>>
    /\ Len(network.storage_units_i) > 0
    /\ Len(network.stores_i) > 0
    /\ \E cb \in Range(network.links_i) :
          LET bus == network.links[cb].bus1
          IN  /\ coefficient(p_balance[<<bus, 2>>].variables,
                             <<"link_p", cb, 2>>) = network.links[cb].efficiency
              /\ \E gen \in Range(network.generators_i) :
                    <<"generator_p", gen, 2>> \in
                        variables_of(p_balance[<<bus, 2>>])

\* the nominal variables of the extendable elements, each with the element
\* as [capital_cost, existing]
nominal ==
    LET entry(cost, existing) == [capital_cost |-> cost, existing |-> existing]
        of(name, index, table, extendable(_), existing(_)) ==
            [k \in {<<name, x>> : x \in {x \in Range(index) :
                                            extendable(table[x])}}
             |-> entry(table[k[2]].capital_cost, existing(table[k[2]]))]
        branches ==
            [k \in {<<"passive_branch_s_nom", b[1], b[2]>> :
                      b \in {b \in Range(network.passive_branches_i) :
                               network.passive_branches[b].s_nom_extendable}}
             |-> entry(network.passive_branches[<<k[2], k[3]>>].capital_cost,
                       network.passive_branches[<<k[2], k[3]>>].s_nom)]
    IN  of("generator_p_nom", network.generators_i, network.generators,
           LAMBDA x : x.p_nom_extendable, LAMBDA x : x.p_nom) @@
        of("storage_p_nom", network.storage_units_i, network.storage_units,
           LAMBDA x : x.p_nom_extendable, LAMBDA x : x.p_nom) @@
        of("store_e_nom", network.stores_i, network.stores,
           LAMBDA x : x.e_nom_extendable, LAMBDA x : x.e_nom) @@
        branches @@
        of("link_p_nom", network.links_i, network.links,
           LAMBDA x : x.p_nom_extendable, LAMBDA x : x.p_nom)

\* the cost C19 gives variable v in the objective
cost(v) ==
    LET w(t) == Num(network.snapshot_weightings[t])
        in_window == v[3] \in Range(snapshots)
    IN  IF v \in DOMAIN nominal THEN nominal[v].capital_cost
        ELSE IF v[1] = "generator_p" /\ in_window
        THEN Mul(network.generators[v[2]].marginal_cost, w(v[3]))
        ELSE IF v[1] = "storage_p_dispatch" /\ in_window
        THEN Mul(network.storage_units[v[2]].marginal_cost, w(v[3]))
        ELSE IF v[1] = "store_p" /\ in_window
        THEN Mul(network.stores[v[2]].marginal_cost, w(v[3]))
        ELSE IF v[1] = "link_p" /\ in_window
        THEN Mul(network.links[v[2]].marginal_cost, w(v[3]))
        ELSE Num(0)

\* every dispatch at zero and every capacity at its existing value
at_existing ==
    [v \in DOMAIN model.variables \cup DOMAIN nominal |->
        IF v \in DOMAIN nominal THEN nominal[v].existing ELSE Num(0)]

\* C19: the objective of the model is the sum of marginal_cost * w[t] * x
\* over generator_p, storage_p_dispatch, store_p and link_p at the
\* snapshots of the window, plus capital_cost * x_nom over the nominal
\* variables of the extendable generators, storage units, stores, passive
\* branches and links, minus the constant sum of capital_cost times the
\* existing capacity of the same elements; with every capacity at its
\* existing value the capital cost is zero.
C19_ObjectiveTerms ==
    pc = "extra_functionality" =>
        LET o == model.objective
        IN  /\ \A v \in DOMAIN model.variables \cup DOMAIN nominal
                        \cup variables_of(o) :
                  coefficient(o.variables, v) = cost(v)
            /\ o.constant =
                  Neg(SumNum(MapSeq(listed(DOMAIN nominal), LAMBDA v :
                               Mul(nominal[v].capital_cost,
                                   nominal[v].existing))))
            /\ evaluate(o, at_existing) = Num(0)

\* the objective of a network with extendable elements of the five kinds
\* over snapshots of different weights
C19_Witness ==
    /\ pc = "extra_functionality"
    /\ snapshots = <<1, 2>>
    /\ {v[1] : v \in DOMAIN nominal} =
          {"generator_p_nom", "storage_p_nom", "store_e_nom",
           "passive_branch_s_nom", "link_p_nom"}
    /\ model.objective.constant # Num(0)
    /\ coefficient(model.objective.variables, <<"generator_p", "G1", 2>>) =
          Num(20)

\* the per-unit limits of generator g at snapshot t: the static ones for
\* flexible dispatch, those of the time-series for variable dispatch
per_unit(g, t) ==
    IF network.generators[g].dispatch = "flexible"
    THEN [min |-> network.generators[g].p_min_pu_fixed,
          max |-> network.generators[g].p_max_pu_fixed]
    ELSE [min |-> network.generators_t.p_min_pu[t][g],
          max |-> network.generators_t.p_max_pu[t][g]]

\* c is "generator_p[g, t] - pu * generator_p_nom[g] sense 0"
capacity_limit(c, g, t, sense, pu) ==
    /\ c.sense = sense
    /\ c.constant = Num(0)
    /\ variables_of(c) \subseteq
          {<<"generator_p", g, t>>, <<"generator_p_nom", g>>}
    /\ coefficient(c.variables, <<"generator_p", g, t>>) = Num(1)
    /\ coefficient(c.variables, <<"generator_p_nom", g>>) = Neg(pu)

\* C20: for every generator g, of variable or flexible dispatch, and every
\* snapshot t of the window: when g is fixed, generator_p[g, t] is bounded
\* by p_min_pu * p_nom and p_max_pu * p_nom, with the per-unit limits of the
\* time-series at t for variable dispatch and the static ones for flexible
\* dispatch, and g has no capacity variable and no capacity constraint;
\* when g is extendable, generator_p[g, t] has no bounds, the model holds
\* generator_p >= p_min_pu * generator_p_nom and
\* generator_p <= p_max_pu * generator_p_nom with the same per-unit limits,
\* and generator_p_nom[g] is bounded by p_nom_min and p_nom_max.
C20_GeneratorBounds ==
    pc = "storage" =>
        \A g \in Range(network.generators_i) :
          \A t \in Range(snapshots) :
            LET gen == network.generators[g]
                p == model.variables[<<"generator_p", g, t>>]
                nom == <<"generator_p_nom", g>>
                lower == <<"generator_p_lower", g, t>>
                upper == <<"generator_p_upper", g, t>>
            IN  /\ gen.dispatch \in {"variable", "flexible"}
                /\ p.domain = "Reals"
                /\ IF gen.p_nom_extendable
                   THEN /\ p.lb = None /\ p.ub = None
                        /\ lower \in DOMAIN model.constraints
                        /\ upper \in DOMAIN model.constraints
                        /\ capacity_limit(model.constraints[lower], g, t,
                                          ">=", per_unit(g, t).min)
                        /\ capacity_limit(model.constraints[upper], g, t,
                                          "<=", per_unit(g, t).max)
                        /\ nom \in DOMAIN model.variables
                        /\ model.variables[nom].lb = gen.p_nom_min
                        /\ model.variables[nom].ub = gen.p_nom_max
                   ELSE /\ p.lb = Mul(per_unit(g, t).min, gen.p_nom)
                        /\ p.ub = Mul(per_unit(g, t).max, gen.p_nom)
                        /\ lower \notin DOMAIN model.constraints
                        /\ upper \notin DOMAIN model.constraints
                        /\ nom \notin DOMAIN model.variables

\* generators of the four categories, with per-unit limits that change over
\* the window and differ from the static ones
C20_Witness ==
    /\ pc = "storage"
    /\ snapshots = <<1, 2>>
    /\ {<<network.generators[g].p_nom_extendable,
          network.generators[g].dispatch>> :
          g \in Range(network.generators_i)} =
       BOOLEAN \X {"variable", "flexible"}
    /\ model.variables[<<"generator_p", "G3", 1>>].ub = Num(2)
    /\ model.variables[<<"generator_p", "G3", 2>>].ub = Frac(8, 3)
    /\ model.variables[<<"generator_p", "G1", 2>>].ub = Num(4)

\* the emissions C21 gives variable v per unit: of the carrier of a
\* generator per unit of fuel, of the carrier of the bus of a store
emission(v) ==
    LET w == Num(network.snapshot_weightings[v[3]])
        co2(carrier) == network.carriers[carrier].co2_emissions
    IN  IF v[1] = "generator_p" /\ v[3] \in Range(snapshots)
        THEN Mul(Mul(co2(network.generators[v[2]].carrier),
                     Inv(network.generators[v[2]].efficiency)), w)
        ELSE IF v[1] = "store_p" /\ v[3] \in Range(snapshots)
        THEN Mul(co2(network.buses[network.stores[v[2]].bus].carrier), w)
        ELSE Num(0)

\* C21: the model holds the constraint co2_constraint exactly when the step
\* for it has run and network.co2_limit is set. The step runs after the
\* balance constraints and before the objective. The constraint is
\* "sum over generators and window of co2 / efficiency * w[t] * generator_p
\* + sum over stores and window of co2 of the carrier of the bus * w[t] *
\* store_p <= co2_limit".
C21_CO2ConstraintIffLimit ==
    pc # "model" =>
        LET key == <<"co2_constraint">>
            present == key \in DOMAIN model.constraints
        IN  /\ present <=> (completed("co2") /\ network.co2_limit # None)
            /\ pc = "objective" =>
                  /\ completed("balance")
                  /\ "objective" \notin model.components
                  /\ present =>
                        LET c == model.constraints[key]
                        IN  /\ c.sense = "<="
                            /\ c.constant = network.co2_limit
                            /\ \A v \in DOMAIN model.variables
                                        \cup variables_of(c) :
                                  coefficient(c.variables, v) = emission(v)

\* a build with a CO2 limit over snapshots of different weights, with an
\* emitting generator, a store at a bus of an emitting carrier and one at a
\* bus of a clean carrier, before the objective
C21_Witness ==
    /\ pc = "objective"
    /\ network.co2_limit = Num(5)
    /\ snapshots = <<1, 2>>
    /\ coefficient(model.constraints[<<"co2_constraint">>].variables,
                   <<"generator_p", "G1", 2>>) = Num(8)
    /\ coefficient(model.constraints[<<"co2_constraint">>].variables,
                   <<"store_p", "E2", 2>>) = Num(2)
    /\ coefficient(model.constraints[<<"co2_constraint">>].variables,
                   <<"store_p", "E1", 2>>) = Num(0)

\* the voltage angle obtained for bus at snapshot t: the value of the
\* variable under angles; otherwise 0 for the slack bus of its sub-network
\* and, for the other buses, the product of the inverse of the reduced
\* susceptance matrix and the injections of the non-slack buses
obtained_angle(bus, t) ==
    IF formulation = "angles"
    THEN Num(solution.primal[<<"voltage_angles", bus, t>>])
    ELSE LET sub == CHOOSE sub \in Range(network.sub_networks_i) :
                       bus \in Range(network.sub_networks[sub].buses_i)
             pvpqs == network.sub_networks[sub].pvpqs
         IN  IF bus = network.sub_networks[sub].slack_bus THEN Num(0)
             ELSE LET i == CHOOSE i \in 1..Len(pvpqs) : pvpqs[i] = bus
                  IN  SumNum([j \in 1..Len(pvpqs) |->
                                Mul(network.sub_networks[sub].B_inverse[i][j],
                                    output.buses_t_p[t][pvpqs[j]])])

\* C22: after the extraction, under each of the four formulations and at
\* every snapshot of the window, v_mag_pu is 1 for every AC bus and
\* 1 + the voltage angle obtained for the bus for every DC bus, and the
\* stored v_ang of every DC bus is 0.
C22_VoltageMagnitudes ==
    (extracted /\ formulation \in Formulations) =>
        \A t \in Range(snapshots) :
          \A bus \in Range(network.buses_i) :
            /\ network.buses[bus].carrier = "AC" =>
                  output.buses_t_v_mag_pu[t][bus] = Num(1)
            /\ network.buses[bus].carrier = "DC" =>
                  /\ output.buses_t_v_mag_pu[t][bus] =
                        Add(Num(1), obtained_angle(bus, t))
                  /\ output.buses_t_v_ang[t][bus] = Num(0)

\* an extraction with recovered angles on a network with a DC bus that is
\* not the slack bus of its sub-network and whose angle is not zero
C22_Witness ==
    /\ extracted
    /\ formulation = "kirchhoff"
    /\ snapshots = <<2, 3>>
    /\ \E bus \in Range(network.buses_i) :
          /\ network.buses[bus].carrier = "DC"
          /\ obtained_angle(bus, 3) # Num(0)
          /\ output.buses_t_v_mag_pu[3][bus] # Num(1)
          /\ output.buses_t_v_ang[3][bus] = Num(0)

\* the result series with one row per snapshot of the network
Series ==
    {"generators_t_p", "storage_units_t_p",
     "storage_units_t_state_of_charge", "storage_units_t_spill",
     "stores_t_p", "stores_t_e", "loads_t_p", "buses_t_p", "branches_t_p0",
     "branches_t_p1", "links_t_p0", "links_t_p1", "buses_t_v_ang",
     "buses_t_marginal_price", "buses_t_v_mag_pu"}

\* the rows of series f outside the window are after the step what they
\* were before
rows_outside_kept(f) ==
    \A t \in Range(network.snapshots) \ Range(snapshots) :
        output'[f][t] = output[f][t]

\* C23: the step after the solver, extraction included, leaves every row
\* of every result series that belongs to a snapshot outside the window as
\* it was.
C23_RowsOutsideWindowKept ==
    [][pc = "status" => \A f \in Series : rows_outside_kept(f)]_vars

====
